---- MODULE Spec2Model ----
(***************************************************************************)
(* Model of the PostgreSQL provider's catalog-lock discipline, the         *)
(* transactional resource handlers (grant, schema, extension, role         *)
(* membership) and the schema policy diff.                                 *)
(***************************************************************************)
EXTENDS Integers, Sequences, FiniteSets, TLC

(***************************************************************************)
(* Bounds                                                                  *)
(***************************************************************************)
\* longest old/new policy list given to the diff
MaxPolicies == 2

(***************************************************************************)
(* Schema policy declarations                                              *)
(***************************************************************************)
\* role names of the bounded alphabet; "" is PUBLIC
RoleNames == {"", "alice", "Alice"}

\* variant: role keys taken as written
ToLowerSkipped(s) == s

\* strings.ToLower on the bounded alphabet
ToLower(s) == IF s = "Alice" THEN "alice" ELSE s

\* a policy block as the framework hands it over: map[string]interface{}
PolicyMap(r, c, cg, u, ug) ==
    [role |-> r, create |-> c, create_with_grant |-> cg,
     usage |-> u, usage_with_grant |-> ug]

\* a policy block whose map carries no "role" entry
NoRolePolicy == [create |-> TRUE, create_with_grant |-> FALSE,
                 usage |-> FALSE, usage_with_grant |-> FALSE]

\* the policy blocks the diff is exercised on
DiffPolicies ==
    {PolicyMap(r, c, FALSE, TRUE, FALSE) : r \in RoleNames, c \in BOOLEAN}
        \cup {NoRolePolicy}

\* all lists of at most n elements of S
ListsUpTo(S, n) == UNION {[1..k -> S] : k \in 0..n}

HasRole(p) == "role" \in DOMAIN p

\* the lookup map built by one of the two loops of schemaChangedPolicies:
\* entries are written in list order, a later entry overwrites an earlier one
LookupMap(list) ==
    LET idxs == {i \in 1..Len(list) : HasRole(list[i])}
        keys == {ToLower(list[i].role) : i \in idxs}
        last(k) == CHOOSE i \in idxs :
                      /\ ToLower(list[i].role) = k
                      /\ \A j \in idxs : ToLower(list[j].role) = k => j <= i
    IN  [k \in keys |-> list[last(k)]]

\* variant: the added bucket is filled without the "not in old" test
schemaChangedPoliciesAddAll(old, new) ==
    LET o == LookupMap(old)
        n == LookupMap(new)
        both == DOMAIN o \cap DOMAIN n
    IN  [dropped   |-> [k \in DOMAIN o \ DOMAIN n |-> o[k]],
         added     |-> [k \in DOMAIN n |-> n[k]],
         updated   |-> [k \in {x \in both : o[x] # n[x]} |-> <<o[k], n[k]>>],
         unchanged |-> [k \in {x \in both : o[x] = n[x]} |-> o[k]]]

\* variant: the pair of an updated role is stored as (new, old)
schemaChangedPoliciesSwapped(old, new) ==
    LET o == LookupMap(old)
        n == LookupMap(new)
        both == DOMAIN o \cap DOMAIN n
    IN  [dropped   |-> [k \in DOMAIN o \ DOMAIN n |-> o[k]],
         added     |-> [k \in DOMAIN n \ DOMAIN o |-> n[k]],
         updated   |-> [k \in {x \in both : o[x] # n[x]} |-> <<n[k], o[k]>>],
         unchanged |-> [k \in {x \in both : o[x] = n[x]} |-> o[k]]]

\* variant: a role in both lists is always reported as updated
schemaChangedPoliciesNoEqual(old, new) ==
    LET o == LookupMap(old)
        n == LookupMap(new)
        both == DOMAIN o \cap DOMAIN n
    IN  [dropped   |-> [k \in DOMAIN o \ DOMAIN n |-> o[k]],
         added     |-> [k \in DOMAIN n \ DOMAIN o |-> n[k]],
         updated   |-> [k \in both |-> <<o[k], n[k]>>],
         unchanged |-> [k \in {} |-> o[k]]]

schemaChangedPolicies(old, new) ==
    LET o == LookupMap(old)
        n == LookupMap(new)
        both == DOMAIN o \cap DOMAIN n
    IN  [dropped   |-> [k \in DOMAIN o \ DOMAIN n |-> o[k]],
         added     |-> [k \in DOMAIN n \ DOMAIN o |-> n[k]],
         updated   |-> [k \in {x \in both : o[x] # n[x]} |-> <<o[k], n[k]>>],
         unchanged |-> [k \in {x \in both : o[x] = n[x]} |-> o[k]]]

(***************************************************************************)
(* Catalog, statements and workers                                         *)
(***************************************************************************)
\* worker goroutines of the lifecycle framework that share one *Client
Procs == {"w1", "w2"}
NoProc == "nobody"

\* the connection user, and the other role a membership resource may name
Actor == "actor"
Members == {Actor, "bob"}

\* the role that owns the schema; membership in it is what elevation borrows
\* and what a role membership resource on that role manages
OwnerRole == "owner"

\* role of a grant resource
GrantRole == "grantee"

\* the catalog: members of OwnerRole, whether the schema and the extension
\* exist, whether GrantRole holds its declared privileges
FreshDb == [grp |-> {}, schema |-> FALSE, ext |-> FALSE, privs |-> FALSE]
NoDb == [none |-> TRUE]

Stmt(k, r) == [k |-> k, role |-> r]

\* effect of a successfully executed statement on a catalog state
Apply(d, s) ==
    CASE s.k = "ELEV_GRANT"       -> [d EXCEPT !.grp = @ \cup {Actor}]
      [] s.k = "ELEV_REVOKE"      -> [d EXCEPT !.grp = @ \ {Actor}]
      [] s.k = "MEMBER_GRANT"     -> [d EXCEPT !.grp = @ \cup {s.role}]
      [] s.k = "MEMBER_REVOKE"    -> [d EXCEPT !.grp = @ \ {s.role}]
      [] s.k = "GRANT"            -> IF s.role = GrantRole
                                     THEN [d EXCEPT !.privs = TRUE] ELSE d
      [] s.k = "REVOKE"           -> IF s.role = GrantRole
                                     THEN [d EXCEPT !.privs = FALSE] ELSE d
      [] s.k = "CREATE_SCHEMA"    -> [d EXCEPT !.schema = TRUE]
      [] s.k = "DROP_SCHEMA"      -> [d EXCEPT !.schema = FALSE]
      [] s.k = "CREATE_EXTENSION" -> [d EXCEPT !.ext = TRUE]
      [] s.k = "DROP_EXTENSION"   -> [d EXCEPT !.ext = FALSE]
      [] OTHER                    -> d

\* statements recorded in a worker's trace: membership and privilege
\* statements and the commit
Traced(s) == s.k \in {"ELEV_GRANT", "ELEV_REVOKE", "GRANT", "REVOKE", "COMMIT"}

Record(tr, s) == IF Traced(s) THEN Append(tr, s) ELSE tr

(***************************************************************************)
(* State                                                                   *)
(***************************************************************************)
VARIABLES
    catalogLock, \* Client.catalogLock: the writer holding it and the readers
    db,          \* committed catalog state of the database
    proc,        \* per worker: handler, position, transactions, locals
    diffOld,     \* old policy list handed to schemaChangedPolicies
    diffNew,     \* new policy list handed to schemaChangedPolicies
    diffRes,     \* its four buckets, or NoResult before the call
    polFound,    \* role keys of dropped roles that pg_roles still lists
    polRun1,     \* statements queued by one run of setSchemaPolicy
    polRun2,     \* statements queued by a second run on the same input
    aclPolicies, \* policy list handed to the policy map of create
    aclValue,    \* that map of acl.Schema values, or NoResult
    grDecl,      \* declared configuration of one grant resource
    grCat,       \* privileges of the grant's role on the objects of the catalog
    grD,         \* the grant's resource data d (privileges, tables, id)
    grPrev,      \* d as it was handed to the last handler
    grStep,      \* the last handler that ran on the grant: create or read
    srD,         \* resource data d of one schema resource before its read
    srRow,       \* what the catalog query of the schema read returns
    srRes,       \* d and the error after the schema read, or NoResult
    txIn,        \* names and settings handed to a text-building function
    txOut        \* the text or value the function produced, or NoResult

polVars == <<polFound, polRun1, polRun2>>
aclVars == <<aclPolicies, aclValue>>
grantVars == <<grDecl, grCat, grD, grPrev, grStep>>
schemaReadVars == <<srD, srRow, srRes>>
textVars == <<txIn, txOut>>
readVars == <<grantVars, schemaReadVars, textVars>>
diffVars == <<diffOld, diffNew, diffRes, polVars, aclVars, readVars>>
opVars == <<catalogLock, db, proc>>
vars == <<catalogLock, db, proc, diffVars>>

NoResult == [none |-> TRUE]

\* no text-building function is under study
NoTextRun == txIn = NoResult /\ txOut = NoResult

\* no grant, no schema read and no text is under study
NoReadRuns ==
    /\ NoTextRun
    /\ grDecl = NoResult /\ grCat = NoResult /\ grD = NoResult
    /\ grPrev = NoResult /\ grStep = "none"
    /\ srD = NoResult /\ srRow = NoResult /\ srRes = NoResult

\* a worker that runs no handler
IdleProc ==
    [op |-> "none", pc |-> "idle", txn |-> "none", txn2 |-> "none",
     txdb |-> NoDb, granted |-> FALSE, queries |-> <<>>, trace |-> <<>>,
     pre |-> NoDb, err |-> FALSE, id |-> "", missing |-> FALSE]

(***************************************************************************)
(* Catalog lock (sync.RWMutex) and the shared steps of the handlers        *)
(***************************************************************************)
At(p, o, l) == proc[p].op = o /\ proc[p].pc = l

\* the record of worker p after a step
Goto(p, l) == [proc[p] EXCEPT !.pc = l]
Fail(p, l) == [proc[p] EXCEPT !.pc = l, !.err = TRUE]

\* Lock() returns once no writer and no reader holds the lock
CanLock(l) == l.writer = NoProc /\ l.readers = {}

\* RLock() returns once no writer holds the lock
CanRLock(l) == l.writer = NoProc

\* the identifier of the resource a handler is called on: create is called
\* on a resource that has none yet (d.Id() = ""), every other handler on a
\* resource that has one; the grant create handler is modelled as called
\* for a create
InitialId(o) ==
    IF o \in {"GrantCreate", "SchemaCreate", "ExtensionCreate", "RoleMembershipCreate"}
    THEN "" ELSE "id"

\* variant: a write handler that takes the lock shared, c.catalogLock.RLock()
LockStepShared(p, o, next) ==
    /\ proc[p].pc = "waitLock"
    /\ catalogLock.writer = NoProc
    /\ catalogLock' = [catalogLock EXCEPT !.readers = @ \cup {p}]
    /\ proc' = [proc EXCEPT ![p] = [@ EXCEPT !.op = o, !.pc = next, !.pre = db,
                                              !.id = InitialId(o)]]
    /\ UNCHANGED <<db, diffVars>>

\* c.catalogLock.Lock(); defer c.catalogLock.Unlock(): handler o, called on
\* worker p, gets the lock it has been waiting for
LockStep(p, o, next) ==
    /\ proc[p].pc = "waitLock"
    /\ CanLock(catalogLock)
    /\ catalogLock' = [catalogLock EXCEPT !.writer = p]
    /\ proc' = [proc EXCEPT ![p] = [@ EXCEPT !.op = o, !.pc = next, !.pre = db,
                                              !.id = InitialId(o)]]
    /\ UNCHANGED <<db, diffVars>>

\* c.catalogLock.RLock(); defer c.catalogLock.RUnlock()
RLockStep(p, o, next) ==
    /\ proc[p].pc = "waitRLock"
    /\ CanRLock(catalogLock)
    /\ catalogLock' = [catalogLock EXCEPT !.readers = @ \cup {p}]
    /\ proc' = [proc EXCEPT ![p] = [@ EXCEPT !.op = o, !.pc = next, !.pre = db,
                                              !.id = InitialId(o)]]
    /\ UNCHANGED <<db, diffVars>>

\* variant: the version gate is checked under the catalog lock
RejectStepLocked(p, mode) ==
    \/ /\ proc[p].pc = mode
       /\ CanLock(catalogLock)
       /\ catalogLock' = [catalogLock EXCEPT !.writer = p]
       /\ proc' = [proc EXCEPT ![p] = [IdleProc EXCEPT !.pc = "rejected", !.err = TRUE]]
       /\ UNCHANGED <<db, diffVars>>
    \/ /\ proc[p].pc = "rejected"
       /\ catalogLock' = [catalogLock EXCEPT !.writer = NoProc]
       /\ proc' = [proc EXCEPT ![p] = IdleProc]
       /\ UNCHANGED <<db, diffVars>>

\* the checks at the head of the grant and extension handlers (the version
\* gate, validatePrivileges): a failed check makes the handler return its
\* error before it locks, with d as it was called
RejectStep(p, mode) ==
    \/ /\ proc[p].pc = mode
       /\ proc' = [proc EXCEPT ![p] = [IdleProc EXCEPT !.pc = "rejected", !.err = TRUE]]
       /\ UNCHANGED <<catalogLock, db, diffVars>>
    \/ /\ proc[p].pc = "rejected"
       /\ proc' = [proc EXCEPT ![p] = IdleProc]
       /\ UNCHANGED <<catalogLock, db, diffVars>>

\* txn, err := startTransaction(c, database); defer deferredRollback(txn)
\* for the transaction the handler writes in
BeginStep(p, o, from, next) ==
    /\ At(p, o, from)
    /\ \E ok \in BOOLEAN :
          proc' = [proc EXCEPT ![p] =
                      IF ok THEN [@ EXCEPT !.pc = next, !.txn = "open", !.txdb = db]
                            ELSE Fail(p, "return")]
    /\ UNCHANGED <<catalogLock, db, diffVars>>

\* the same for the transaction of a read pass
BeginReadStep(p, o, from, next) ==
    /\ At(p, o, from)
    /\ \E ok \in BOOLEAN :
          proc' = [proc EXCEPT ![p] =
                      IF ok THEN [@ EXCEPT !.pc = next, !.txn2 = "open"]
                            ELSE Fail(p, "return")]
    /\ UNCHANGED <<catalogLock, db, diffVars>>

\* txn.Exec(stmt) in the write transaction: the statement takes effect in
\* the transaction's view of the catalog, or fails and the handler goes on
\* at its error path
ExecStepTo(p, o, from, next, s, onError) ==
    /\ At(p, o, from)
    /\ \E ok \in BOOLEAN :
          proc' = [proc EXCEPT ![p] =
                      IF ok THEN [@ EXCEPT !.pc = next,
                                           !.txdb = Apply(@, s),
                                           !.trace = Record(@, s)]
                            ELSE Fail(p, onError)]
    /\ UNCHANGED <<catalogLock, db, diffVars>>

\* the usual error path: if err != nil { return err }
ExecStep(p, o, from, next, s) == ExecStepTo(p, o, from, next, s, "return")

\* a read-only query of a handler
QueryStep(p, o, from, next) ==
    /\ At(p, o, from)
    /\ \E ok \in BOOLEAN :
          proc' = [proc EXCEPT ![p] = IF ok THEN Goto(p, next) ELSE Fail(p, "return")]
    /\ UNCHANGED <<catalogLock, db, diffVars>>

\* variant: the identifier is set before the commit is attempted
CommitStepIdFirst(p, o, from, next) ==
    /\ At(p, o, from)
    /\ \E ok \in BOOLEAN :
          IF ok
          THEN /\ db' = proc[p].txdb
               /\ proc' = [proc EXCEPT ![p] =
                              [@ EXCEPT !.pc = next, !.txn = "committed", !.id = "id",
                                        !.trace = Record(@, Stmt("COMMIT", ""))]]
          ELSE /\ db' = db
               /\ proc' = [proc EXCEPT ![p] = [Fail(p, "return") EXCEPT !.id = "id"]]
    /\ UNCHANGED <<catalogLock, diffVars>>

\* txn.Commit(): the transaction's view becomes the committed catalog
CommitStep(p, o, from, next) ==
    /\ At(p, o, from)
    /\ \E ok \in BOOLEAN :
          IF ok
          THEN /\ db' = proc[p].txdb
               /\ proc' = [proc EXCEPT ![p] =
                              [@ EXCEPT !.pc = next, !.txn = "committed",
                                        !.trace = Record(@, Stmt("COMMIT", ""))]]
          ELSE /\ db' = db
               /\ proc' = [proc EXCEPT ![p] = Fail(p, "return")]
    /\ UNCHANGED <<catalogLock, diffVars>>

EndTx(t) == IF t = "open" THEN "rolledback" ELSE t

\* variant: after d.SetId the handler calls the read handler, which takes
\* the shared lock, instead of the read pass
SetIdStepLockedRead(p, o, from, next, v) ==
    /\ At(p, o, from)
    /\ proc' = [proc EXCEPT ![p] =
                   [@ EXCEPT !.pc = IF next = "return" THEN next ELSE "waitRLock", !.id = v]]
    /\ UNCHANGED <<catalogLock, db, diffVars>>

\* d.SetId(v): "id" stands for the generated identifier, "" clears it
SetIdStep(p, o, from, next, v) ==
    /\ At(p, o, from)
    /\ proc' = [proc EXCEPT ![p] = [@ EXCEPT !.pc = next, !.id = v]]
    /\ UNCHANGED <<catalogLock, db, diffVars>>

\* variant: a read pass that returns sql.ErrNoRows as an error
ReadRowStepMissingFails(p, o, from, exists) ==
    /\ At(p, o, from)
    /\ \E r \in {"error", IF exists THEN "row" ELSE "norows"} :
          proc' = [proc EXCEPT ![p] =
                      CASE r = "error"  -> Fail(p, "return")
                        [] r = "norows" -> [Fail(p, "return") EXCEPT !.missing = TRUE]
                        [] r = "row"    -> [@ EXCEPT !.pc = "return", !.id = "id"]]
    /\ UNCHANGED <<catalogLock, db, diffVars>>

\* variant: a read pass that commits its transaction once it has its row
ReadRowStepCommit(p, o, from, exists) ==
    /\ At(p, o, from)
    /\ \E r \in {"error", IF exists THEN "row" ELSE "norows"} :
          proc' = [proc EXCEPT ![p] =
                      CASE r = "error"  -> Fail(p, "return")
                        [] r = "norows" -> [@ EXCEPT !.pc = "return", !.id = "",
                                                     !.missing = TRUE]
                        [] r = "row"    -> [@ EXCEPT !.pc = "return", !.id = "id",
                                                     !.txn2 = "committed"]]
    /\ UNCHANGED <<catalogLock, db, diffVars>>

\* txn.QueryRow(...).Scan(...) of a read pass for an object that the
\* committed catalog has (exists) or has not: sql.ErrNoRows clears the
\* identifier and the pass returns nil (the object is missing), another
\* error is returned, a row sets the attributes and the identifier
ReadRowStep(p, o, from, exists) ==
    /\ At(p, o, from)
    /\ \E r \in {"error", IF exists THEN "row" ELSE "norows"} :
          proc' = [proc EXCEPT ![p] =
                      CASE r = "error"  -> Fail(p, "return")
                        [] r = "norows" -> [@ EXCEPT !.pc = "return", !.id = "",
                                                     !.missing = TRUE]
                        [] r = "row"    -> [@ EXCEPT !.pc = "return", !.id = "id"]]
    /\ UNCHANGED <<catalogLock, db, diffVars>>

\* variant: a handler that returns without the deferred rollback
DeferredRollbackMissing(p) ==
    /\ proc[p].pc = "return"
    /\ proc' = [proc EXCEPT ![p] = Goto(p, "unlock")]
    /\ UNCHANGED <<catalogLock, db, diffVars>>

\* the deferred deferredRollback(txn) calls of a returning handler: an open
\* transaction is rolled back, a committed one is left alone
DeferredRollback(p) ==
    /\ proc[p].pc = "return"
    /\ proc' = [proc EXCEPT ![p] =
                   [@ EXCEPT !.pc = "unlock", !.txn = EndTx(@), !.txn2 = EndTx(@)]]
    /\ UNCHANGED <<catalogLock, db, diffVars>>

\* variant: the lock is released on the success path only
DeferredUnlockOnSuccess(p) ==
    /\ proc[p].pc = "unlock"
    /\ catalogLock' = IF proc[p].err THEN catalogLock
                      ELSE [writer  |-> IF catalogLock.writer = p THEN NoProc
                                        ELSE catalogLock.writer,
                            readers |-> catalogLock.readers \ {p}]
    /\ proc' = [proc EXCEPT ![p] = IdleProc]
    /\ UNCHANGED <<db, diffVars>>

\* the deferred c.catalogLock.Unlock() / RUnlock(); the handler has returned
DeferredUnlock(p) ==
    /\ proc[p].pc = "unlock"
    /\ catalogLock' = [writer  |-> IF catalogLock.writer = p THEN NoProc
                                   ELSE catalogLock.writer,
                       readers |-> catalogLock.readers \ {p}]
    /\ proc' = [proc EXCEPT ![p] = IdleProc]
    /\ UNCHANGED <<db, diffVars>>

(***************************************************************************)
(* The lifecycle framework calls a handler on a worker                     *)
(***************************************************************************)
WriteOps == {"GrantCreate", "GrantDelete",
             "SchemaCreate", "SchemaUpdate", "SchemaDelete",
             "ExtensionCreate", "ExtensionUpdate", "ExtensionDelete",
             "RoleMembershipCreate", "RoleMembershipUpdate", "RoleMembershipDelete"}
ReadOps == {"GrantRead", "SchemaRead", "SchemaExists",
            "ExtensionRead", "ExtensionExists", "RoleMembershipRead"}
Handlers == WriteOps \cup ReadOps

\* the framework calls a handler on an idle worker; the handler's first
\* blocking call is Lock() or RLock() on the client's catalog lock
Invoke(p) ==
    /\ proc[p].pc = "idle"
    /\ \E mode \in {"waitLock", "waitRLock"} :
          proc' = [proc EXCEPT ![p] = Goto(p, mode)]
    /\ UNCHANGED <<catalogLock, db, diffVars>>

(***************************************************************************)
(* Extension handlers                                                      *)
(***************************************************************************)
\* the read pass shared by extension create, update and read
resourcePostgreSQLExtensionReadImpl(p, o) ==
    \/ BeginReadStep(p, o, "reread", "readquery")
    \/ ReadRowStep(p, o, "readquery", db.ext)

resourcePostgreSQLExtensionCreate(p) ==
    \/ RejectStep(p, "waitLock")
    \/ LockStep(p, "ExtensionCreate", "begin")
    \/ BeginStep(p, "ExtensionCreate", "begin", "exec")
    \/ ExecStep(p, "ExtensionCreate", "exec", "commit", Stmt("CREATE_EXTENSION", ""))
    \/ CommitStep(p, "ExtensionCreate", "commit", "setid")
    \/ SetIdStep(p, "ExtensionCreate", "setid", "reread", "id")
    \/ resourcePostgreSQLExtensionReadImpl(p, "ExtensionCreate")

resourcePostgreSQLExtensionExists(p) ==
    \/ RejectStep(p, "waitLock")
    \/ LockStep(p, "ExtensionExists", "begin")
    \/ BeginReadStep(p, "ExtensionExists", "begin", "readquery")
    \/ QueryStep(p, "ExtensionExists", "readquery", "return")

resourcePostgreSQLExtensionRead(p) ==
    \/ RejectStep(p, "waitRLock")
    \/ RLockStep(p, "ExtensionRead", "reread")
    \/ resourcePostgreSQLExtensionReadImpl(p, "ExtensionRead")

resourcePostgreSQLExtensionDelete(p) ==
    \/ RejectStep(p, "waitLock")
    \/ LockStep(p, "ExtensionDelete", "begin")
    \/ BeginStep(p, "ExtensionDelete", "begin", "exec")
    \/ ExecStep(p, "ExtensionDelete", "exec", "commit", Stmt("DROP_EXTENSION", ""))
    \/ CommitStep(p, "ExtensionDelete", "commit", "setid")
    \/ SetIdStep(p, "ExtensionDelete", "setid", "return", "")

\* setExtSchema and setExtVersion: nothing without a change, an error for an
\* empty new schema name, one ALTER EXTENSION statement otherwise
SetExtStep(p, o, from, next, mayBeEmpty) ==
    \/ /\ At(p, o, from)
       /\ \E change \in {"none"} \cup (IF mayBeEmpty THEN {"empty"} ELSE {}) :
             proc' = [proc EXCEPT ![p] =
                         IF change = "none" THEN Goto(p, next) ELSE Fail(p, "return")]
       /\ UNCHANGED <<catalogLock, db, diffVars>>
    \/ ExecStep(p, o, from, next, Stmt("ALTER_EXTENSION", ""))

resourcePostgreSQLExtensionUpdate(p) ==
    \/ RejectStep(p, "waitLock")
    \/ LockStep(p, "ExtensionUpdate", "begin")
    \/ BeginStep(p, "ExtensionUpdate", "begin", "setschema")
    \/ SetExtStep(p, "ExtensionUpdate", "setschema", "setversion", TRUE)
    \/ SetExtStep(p, "ExtensionUpdate", "setversion", "commit", FALSE)
    \/ CommitStep(p, "ExtensionUpdate", "commit", "reread")
    \/ resourcePostgreSQLExtensionReadImpl(p, "ExtensionUpdate")

(***************************************************************************)
(* Role elevation                                                          *)
(***************************************************************************)
\* grantRoleMembership(txn, role, member) on the transaction's view d:
\* nothing is granted when member is the role itself or already a member,
\* otherwise GRANT role TO member is executed and reported as granted
grantRoleMembership(d, role, member) ==
    IF member = role \/ member \in d.grp
    THEN [granted |-> FALSE, db |-> d]
    ELSE [granted |-> TRUE,  db |-> Apply(d, Stmt("ELEV_GRANT", role))]

\* the elevation step of a handler for the owner role `role`: the GRANT, when
\* one is needed, may fail, and the handler then returns the error
ElevateStep(p, o, from, next, role) ==
    /\ At(p, o, from)
    /\ LET r == grantRoleMembership(proc[p].txdb, role, Actor) IN
       \E ok \in BOOLEAN :
          /\ ~r.granted => ok
          /\ proc' = [proc EXCEPT ![p] =
                IF ok THEN [@ EXCEPT !.pc = next, !.granted = r.granted, !.txdb = r.db,
                                     !.trace = IF r.granted
                                               THEN Append(@, Stmt("ELEV_GRANT", role))
                                               ELSE @]
                      ELSE Fail(p, "return")]
    /\ UNCHANGED <<catalogLock, db, diffVars>>

\* the tail of withRolesGranted(txn, owners, fn): whatever fn returned, a
\* membership granted by this call is revoked in the same transaction; an
\* error of fn or of the revoke is returned, otherwise the caller goes on
WithRolesGrantedEnd(p, o, from, next) ==
    \/ /\ At(p, o, from)
       /\ ~proc[p].granted
       /\ proc' = [proc EXCEPT ![p] = Goto(p, IF proc[p].err THEN "return" ELSE next)]
       /\ UNCHANGED <<catalogLock, db, diffVars>>
    \/ /\ At(p, o, from)
       /\ proc[p].granted
       /\ \E ok \in BOOLEAN :
             proc' = [proc EXCEPT ![p] =
                IF ok THEN [@ EXCEPT !.pc = IF proc[p].err THEN "return" ELSE next,
                                     !.txdb = Apply(@, Stmt("ELEV_REVOKE", OwnerRole)),
                                     !.trace = Append(@, Stmt("ELEV_REVOKE", OwnerRole))]
                      ELSE Fail(p, "return")]
       /\ UNCHANGED <<catalogLock, db, diffVars>>

(***************************************************************************)
(* Grant handlers                                                          *)
(***************************************************************************)
\* owners of the schema and of its tables, as getRolesToGrantForSchema finds
\* them: the connection user itself or another role
SchemaOwners == {Actor, OwnerRole}

\* object_type "database" needs no owner; otherwise the owners are queried
\* and withRolesGranted starts by granting their membership
GrantOwners(p, o, next) ==
    \/ /\ At(p, o, "owners")
       /\ proc' = [proc EXCEPT ![p] = Goto(p, next)]
       /\ UNCHANGED <<catalogLock, db, diffVars>>
    \/ QueryStep(p, o, "owners", "elevate")
    \/ \E owner \in SchemaOwners : ElevateStep(p, o, "elevate", next, owner)

\* readRolePrivileges in the read transaction: a query error is returned;
\* otherwise the privileges (and tables) fields are set from what was read,
\* and a table grant none of whose declared tables was found clears the
\* identifier ("the resource has been destroyed")
readRolePrivilegesStep(p, o) ==
    /\ At(p, o, "readquery")
    /\ \E r \in {"error", "read", "notables"} :
          proc' = [proc EXCEPT ![p] =
                      CASE r = "error"    -> Fail(p, "return")
                        [] r = "read"     -> Goto(p, "return")
                        [] r = "notables" -> [@ EXCEPT !.pc = "return", !.id = ""]]
    /\ UNCHANGED <<catalogLock, db, diffVars>>

\* create, also registered as the update handler
resourcePostgreSQLGrantCreate(p) ==
    \/ RejectStep(p, "waitLock")
    \/ LockStep(p, "GrantCreate", "begin")
    \/ BeginStep(p, "GrantCreate", "begin", "owners")
    \/ GrantOwners(p, "GrantCreate", "revoke")
    \/ ExecStepTo(p, "GrantCreate", "revoke", "grant", Stmt("REVOKE", GrantRole), "unelevate")
    \/ ExecStepTo(p, "GrantCreate", "grant", "unelevate", Stmt("GRANT", GrantRole), "unelevate")
    \/ WithRolesGrantedEnd(p, "GrantCreate", "unelevate", "commit")
    \/ CommitStep(p, "GrantCreate", "commit", "setid")
    \/ SetIdStep(p, "GrantCreate", "setid", "reread", "id")
    \/ BeginReadStep(p, "GrantCreate", "reread", "readquery")
    \/ readRolePrivilegesStep(p, "GrantCreate")

\* variant: delete commits without executing the REVOKE
resourcePostgreSQLGrantDeleteNoRevoke(p) ==
    \/ RejectStep(p, "waitLock")
    \/ LockStep(p, "GrantDelete", "begin")
    \/ BeginStep(p, "GrantDelete", "begin", "owners")
    \/ GrantOwners(p, "GrantDelete", "revoke")
    \/ /\ At(p, "GrantDelete", "revoke")
       /\ proc' = [proc EXCEPT ![p] = Goto(p, "unelevate")]
       /\ UNCHANGED <<catalogLock, db, diffVars>>
    \/ WithRolesGrantedEnd(p, "GrantDelete", "unelevate", "commit")
    \/ CommitStep(p, "GrantDelete", "commit", "return")

resourcePostgreSQLGrantDelete(p) ==
    \/ RejectStep(p, "waitLock")
    \/ LockStep(p, "GrantDelete", "begin")
    \/ BeginStep(p, "GrantDelete", "begin", "owners")
    \/ GrantOwners(p, "GrantDelete", "revoke")
    \/ ExecStepTo(p, "GrantDelete", "revoke", "unelevate", Stmt("REVOKE", GrantRole), "unelevate")
    \/ WithRolesGrantedEnd(p, "GrantDelete", "unelevate", "commit")
    \/ CommitStep(p, "GrantDelete", "commit", "return")

\* checkRoleDBSchemaExists: an error, a missing role, database or schema
\* (the id is cleared and read returns), or everything is there
\* its transactions are rolled back by its own defers when it returns
CheckExistsStep(p, o, from, next) ==
    \/ BeginReadStep(p, o, from, "checkquery")
    \/ /\ At(p, o, "checkquery")
       /\ \E r \in {"error", "missing", "exists"} :
             proc' = [proc EXCEPT ![p] =
                         CASE r = "error"   -> [Fail(p, "return") EXCEPT !.txn2 = EndTx(@)]
                           [] r = "missing" -> [Goto(p, "return") EXCEPT !.txn2 = EndTx(@),
                                                                         !.id = "",
                                                                         !.missing = TRUE]
                           [] r = "exists"  -> [Goto(p, next) EXCEPT !.txn2 = EndTx(@),
                                                                     !.id = "id"]]
       /\ UNCHANGED <<catalogLock, db, diffVars>>

resourcePostgreSQLGrantRead(p) ==
    \/ RejectStep(p, "waitRLock")
    \/ RLockStep(p, "GrantRead", "check")
    \/ CheckExistsStep(p, "GrantRead", "check", "reread")
    \/ BeginReadStep(p, "GrantRead", "reread", "readquery")
    \/ readRolePrivilegesStep(p, "GrantRead")

(***************************************************************************)
(* Schema handlers                                                         *)
(***************************************************************************)
\* all orders in which a range over a Go map may visit the keys S
Orders(S) == {f \in [1..Cardinality(S) -> S] : \A i, j \in DOMAIN f : f[i] = f[j] => i = j}

RECURSIVE Flatten(_)
Flatten(ss) == IF ss = <<>> THEN <<>> ELSE Head(ss) \o Flatten(Tail(ss))

\* variant: a with_grant flag sets the grant option only
schemaPolicyToACLGrantOnly(policyMap) ==
    [role         |-> IF HasRole(policyMap) THEN policyMap.role ELSE "",
     privileges   |-> {x \in {"CREATE"} : policyMap.create}
                        \cup {x \in {"USAGE"} : policyMap.usage},
     grantOptions |-> {x \in {"CREATE"} : policyMap.create_with_grant}
                        \cup {x \in {"USAGE"} : policyMap.usage_with_grant}]

\* acl.Schema value of a policy block
schemaPolicyToACL(policyMap) ==
    [role         |-> IF HasRole(policyMap) THEN policyMap.role ELSE "",
     privileges   |-> {x \in {"CREATE"} : policyMap.create \/ policyMap.create_with_grant}
                        \cup {x \in {"USAGE"} : policyMap.usage \/ policyMap.usage_with_grant},
     grantOptions |-> {x \in {"CREATE"} : policyMap.create_with_grant}
                        \cup {x \in {"USAGE"} : policyMap.usage_with_grant}]

\* acl.Schema.Merge: union of the privileges and of the grant options, the
\* role of the receiver
Merge(s, x) ==
    [role         |-> IF s.role = "" THEN x.role ELSE s.role,
     privileges   |-> s.privileges \cup x.privileges,
     grantOptions |-> s.grantOptions \cup x.grantOptions]

\* variant: a policy whose key is already in the map replaces the entry
RECURSIVE CreatePolicyMapOverwrite(_)
CreatePolicyMapOverwrite(list) ==
    IF list = <<>> THEN [k \in {} |-> schemaPolicyToACL(NoRolePolicy)]
    ELSE LET m == CreatePolicyMapOverwrite(SubSeq(list, 1, Len(list) - 1))
             rolePolicy == schemaPolicyToACL(list[Len(list)])
             roleKey == ToLower(rolePolicy.role)
         IN  [k \in DOMAIN m \cup {roleKey} |->
                 IF k # roleKey THEN m[k] ELSE rolePolicy]

\* the map of role policies create builds from the declared list: a policy
\* whose lowercased role is already a key is merged into the entry
RECURSIVE CreatePolicyMap(_)
CreatePolicyMap(list) ==
    IF list = <<>> THEN [k \in {} |-> schemaPolicyToACL(NoRolePolicy)]
    ELSE LET m == CreatePolicyMap(SubSeq(list, 1, Len(list) - 1))
             rolePolicy == schemaPolicyToACL(list[Len(list)])
             roleKey == ToLower(rolePolicy.role)
         IN  [k \in DOMAIN m \cup {roleKey} |->
                 IF k # roleKey THEN m[k]
                 ELSE IF roleKey \in DOMAIN m THEN Merge(m[roleKey], rolePolicy)
                 ELSE rolePolicy]

\* acl.Schema.Grants / Revokes: one statement per privilege held
PrivSeq(a) == (IF "CREATE" \in a.privileges THEN <<"CREATE">> ELSE <<>>)
                 \o (IF "USAGE" \in a.privileges THEN <<"USAGE">> ELSE <<>>)
Grants(a) == [i \in 1..Len(PrivSeq(a)) |-> Stmt("GRANT", a.role)]
Revokes(a) == [i \in 1..Len(PrivSeq(a)) |-> Stmt("REVOKE", a.role)]

\* the same statements with the privilege each of them names
GrantsSQL(a) ==
    [i \in 1..Len(PrivSeq(a)) |-> [k |-> "GRANT", role |-> a.role, priv |-> PrivSeq(a)[i]]]
RevokesSQL(a) ==
    [i \in 1..Len(PrivSeq(a)) |-> [k |-> "REVOKE", role |-> a.role, priv |-> PrivSeq(a)[i]]]

\* policy blocks and policy sets the handlers are run on: one privilege per
\* block, distinct role keys within a set
MainPolicies == {PolicyMap(r, c, FALSE, ~c, FALSE) : r \in {"", "alice"}, c \in BOOLEAN}
MainLists == {l \in ListsUpTo(MainPolicies, 2) :
                 \A i, j \in 1..Len(l) : l[i].role = l[j].role => i = j}

\* values of the owner attribute
OwnerChoices == {"", Actor, OwnerRole}

NextAfter(qs, next) == IF qs = <<>> THEN next ELSE "exec"

\* schemaOwner := d.Get(schemaOwnerAttr);
\* if schemaOwner != "" { ownerGranted, err = grantRoleMembership(...) }
SchemaElevate(p, o, next) ==
    \/ /\ At(p, o, "elevate")
       /\ proc' = [proc EXCEPT ![p] = Goto(p, next)]
       /\ UNCHANGED <<catalogLock, db, diffVars>>
    \/ \E owner \in OwnerChoices \ {""} : ElevateStep(p, o, "elevate", next, owner)

\* for _, query := range queries { txn.Exec(query) }: one statement a step
ExecQueries(p, o, next) ==
    /\ At(p, o, "exec")
    /\ proc[p].queries # <<>>
    /\ \E ok \in BOOLEAN :
          proc' = [proc EXCEPT ![p] =
             IF ok THEN [@ EXCEPT !.pc = NextAfter(Tail(proc[p].queries), next),
                                  !.txdb = Apply(@, Head(proc[p].queries)),
                                  !.trace = Record(@, Head(proc[p].queries)),
                                  !.queries = Tail(@)]
                   ELSE Fail(p, "return")]
    /\ UNCHANGED <<catalogLock, db, diffVars>>

\* variant: the membership is revoked whether or not this call granted it
SchemaRevokeAlways(p, o, next) ==
    ExecStep(p, o, "unelevate", next, Stmt("ELEV_REVOKE", OwnerRole))

\* variant: the revoke is skipped
SchemaRevokeNever(p, o, next) ==
    /\ At(p, o, "unelevate")
    /\ proc' = [proc EXCEPT ![p] = Goto(p, next)]
    /\ UNCHANGED <<catalogLock, db, diffVars>>

\* variant: an error of the revoke is dropped and the handler goes on
SchemaRevokeErrorDropped(p, o, next) ==
    \/ /\ At(p, o, "unelevate")
       /\ ~proc[p].granted
       /\ proc' = [proc EXCEPT ![p] = Goto(p, next)]
       /\ UNCHANGED <<catalogLock, db, diffVars>>
    \/ /\ At(p, o, "unelevate")
       /\ proc[p].granted
       /\ \E ok \in BOOLEAN :
             proc' = [proc EXCEPT ![p] =
                         IF ok THEN [@ EXCEPT !.pc = next,
                                              !.txdb = Apply(@, Stmt("ELEV_REVOKE", OwnerRole)),
                                              !.trace = Record(@, Stmt("ELEV_REVOKE", OwnerRole))]
                               ELSE Goto(p, next)]
       /\ UNCHANGED <<catalogLock, db, diffVars>>

\* if ownerGranted { err = revokeRoleMembership(txn, schemaOwner, currentUser) }
SchemaRevoke(p, o, next) ==
    \/ /\ At(p, o, "unelevate")
       /\ ~proc[p].granted
       /\ proc' = [proc EXCEPT ![p] = Goto(p, next)]
       /\ UNCHANGED <<catalogLock, db, diffVars>>
    \/ /\ proc[p].granted
       /\ ExecStep(p, o, "unelevate", next, Stmt("ELEV_REVOKE", OwnerRole))

\* setSchemaName / setSchemaOwner: nothing without a change, an error for an
\* empty new value, one ALTER SCHEMA statement otherwise
SetSchemaAttr(p, o, from, next, s) ==
    \/ /\ At(p, o, from)
       /\ \E change \in {"none", "empty"} :
             proc' = [proc EXCEPT ![p] =
                         IF change = "none" THEN Goto(p, next) ELSE Fail(p, "return")]
       /\ UNCHANGED <<catalogLock, db, diffVars>>
    \/ ExecStep(p, o, from, next, s)

\* getDBSchemaName, startTransaction and the catalog query of the read pass
resourcePostgreSQLSchemaReadImpl(p, o) ==
    \/ QueryStep(p, o, "getname", "reread")
    \/ BeginReadStep(p, o, "reread", "readquery")
    \/ ReadRowStep(p, o, "readquery", db.schema)

\* variant: CREATE SCHEMA is queued whatever the lookup returns
SchemaLookupAlwaysCreate(p, o) ==
    /\ At(p, o, "lookup")
    /\ proc' = [proc EXCEPT ![p] =
                   [@ EXCEPT !.pc = "policies", !.queries = <<Stmt("CREATE_SCHEMA", "")>>]]
    /\ UNCHANGED <<catalogLock, db, diffVars>>

\* the existence lookup of create: no row queues CREATE SCHEMA, a row or
\* any other error leads to setSchemaOwner
SchemaLookup(p, o) ==
    /\ At(p, o, "lookup")
    /\ \E r \in {IF proc[p].txdb.schema THEN "found" ELSE "norows", "error"} :
          proc' = [proc EXCEPT ![p] =
                      IF r = "norows"
                      THEN [@ EXCEPT !.pc = "policies", !.queries = <<Stmt("CREATE_SCHEMA", "")>>]
                      ELSE Goto(p, "setowner")]
    /\ UNCHANGED <<catalogLock, db, diffVars>>

\* the GRANT statements of the declared policies, one role after the other
\* in the order the map of merged role policies is ranged over
CreatePolicyQueries(p, o, next) ==
    /\ At(p, o, "policies")
    /\ \E l \in MainLists :
       \E ord \in Orders(DOMAIN CreatePolicyMap(l)) :
          proc' = [proc EXCEPT ![p] =
                      [@ EXCEPT !.pc = next,
                                !.queries = @ \o Flatten([i \in 1..Len(ord) |->
                                                Grants(CreatePolicyMap(l)[ord[i]])])]]
    /\ UNCHANGED <<catalogLock, db, diffVars>>

\* the step after the elevation of create: the queued statements, if any
SchemaCreateElevate(p, o) ==
    SchemaElevate(p, o, NextAfter(proc[p].queries, "unelevate"))

resourcePostgreSQLSchemaCreate(p) ==
    \/ LockStep(p, "SchemaCreate", "begin")
    \/ BeginStep(p, "SchemaCreate", "begin", "lookup")
    \/ SchemaLookup(p, "SchemaCreate")
    \/ SetSchemaAttr(p, "SchemaCreate", "setowner", "policies", Stmt("ALTER_SCHEMA_OWNER", ""))
    \/ CreatePolicyQueries(p, "SchemaCreate", "elevate")
    \/ SchemaCreateElevate(p, "SchemaCreate")
    \/ ExecQueries(p, "SchemaCreate", "unelevate")
    \/ SchemaRevoke(p, "SchemaCreate", "commit")
    \/ CommitStep(p, "SchemaCreate", "commit", "setid")
    \/ SetIdStep(p, "SchemaCreate", "setid", "getname", "id")
    \/ resourcePostgreSQLSchemaReadImpl(p, "SchemaCreate")

\* DROP SCHEMA between the elevation and its revoke
resourcePostgreSQLSchemaDelete(p) ==
    \/ LockStep(p, "SchemaDelete", "begin")
    \/ BeginStep(p, "SchemaDelete", "begin", "elevate")
    \/ SchemaElevate(p, "SchemaDelete", "drop")
    \/ ExecStep(p, "SchemaDelete", "drop", "unelevate", Stmt("DROP_SCHEMA", ""))
    \/ SchemaRevoke(p, "SchemaDelete", "commit")
    \/ CommitStep(p, "SchemaDelete", "commit", "setid")
    \/ SetIdStep(p, "SchemaDelete", "setid", "return", "")

\* variant: an updated role is granted its new privileges before the old
\* ones are revoked
PolicyQueriesGrantFirst(ch, found, dOrd, aOrd, uOrd) ==
    Flatten([i \in 1..Len(dOrd) |->
                IF ch.dropped[dOrd[i]].role = "" \/ dOrd[i] \in found
                THEN Revokes(schemaPolicyToACL(ch.dropped[dOrd[i]]))
                ELSE <<>>])
    \o Flatten([i \in 1..Len(aOrd) |-> Grants(schemaPolicyToACL(ch.added[aOrd[i]]))])
    \o Flatten([i \in 1..Len(uOrd) |->
                Grants(schemaPolicyToACL(ch.updated[uOrd[i]][2]))
                   \o Revokes(schemaPolicyToACL(ch.updated[uOrd[i]][1]))])

\* variant: the revokes of a dropped role are queued without the lookup of
\* the role in pg_roles
PolicyStatementsNoLookup(sql, ch, found, dOrd, aOrd, uOrd) ==
    LET G(a) == IF sql THEN GrantsSQL(a) ELSE Grants(a)
        R(a) == IF sql THEN RevokesSQL(a) ELSE Revokes(a)
    IN
    Flatten([i \in 1..Len(dOrd) |-> R(schemaPolicyToACL(ch.dropped[dOrd[i]]))])
    \o Flatten([i \in 1..Len(aOrd) |-> G(schemaPolicyToACL(ch.added[aOrd[i]]))])
    \o Flatten([i \in 1..Len(uOrd) |->
                R(schemaPolicyToACL(ch.updated[uOrd[i]][1]))
                   \o G(schemaPolicyToACL(ch.updated[uOrd[i]][2]))])

\* the statements setSchemaPolicy queues for the buckets of the diff: the
\* revokes of the dropped roles found in pg_roles (PUBLIC is not looked up),
\* the grants of the added roles, then revokes and grants of each updated
\* role; each bucket is ranged over in map order. G and R stand for
\* rolePolicy.Grants(schemaName) and rolePolicy.Revokes(schemaName), with
\* or without the privilege each statement names
PolicyStatements(sql, ch, found, dOrd, aOrd, uOrd) ==
    LET G(a) == IF sql THEN GrantsSQL(a) ELSE Grants(a)
        R(a) == IF sql THEN RevokesSQL(a) ELSE Revokes(a)
    IN
    Flatten([i \in 1..Len(dOrd) |->
                IF ch.dropped[dOrd[i]].role = "" \/ dOrd[i] \in found
                THEN R(schemaPolicyToACL(ch.dropped[dOrd[i]]))
                ELSE <<>>])
    \o Flatten([i \in 1..Len(aOrd) |-> G(schemaPolicyToACL(ch.added[aOrd[i]]))])
    \o Flatten([i \in 1..Len(uOrd) |->
                R(schemaPolicyToACL(ch.updated[uOrd[i]][1]))
                   \o G(schemaPolicyToACL(ch.updated[uOrd[i]][2]))])

\* the queue with statements told apart by kind and role
PolicyQueries(ch, found, dOrd, aOrd, uOrd) ==
    PolicyStatements(FALSE, ch, found, dOrd, aOrd, uOrd)

\* the queue with the privilege of each statement
PolicySQL(ch, found, dOrd, aOrd, uOrd) ==
    PolicyStatements(TRUE, ch, found, dOrd, aOrd, uOrd)

\* setSchemaPolicy up to its Exec loop: nothing without a change of the
\* policy attribute; a failed pg_roles lookup is returned as an error
setSchemaPolicy(p, o, next) ==
    \/ /\ At(p, o, "setpolicy")
       /\ proc' = [proc EXCEPT ![p] = Goto(p, next)]
       /\ UNCHANGED <<catalogLock, db, diffVars>>
    \/ /\ At(p, o, "setpolicy")
       /\ \E old \in MainLists, new \in MainLists :
          LET ch == schemaChangedPolicies(old, new) IN
          /\ old # new
          /\ \E found \in SUBSET (DOMAIN ch.dropped) :
             \E dOrd \in Orders(DOMAIN ch.dropped), aOrd \in Orders(DOMAIN ch.added),
                uOrd \in Orders(DOMAIN ch.updated) :
                LET qs == PolicyQueries(ch, found, dOrd, aOrd, uOrd) IN
                proc' = [proc EXCEPT ![p] =
                            [@ EXCEPT !.pc = NextAfter(qs, next), !.queries = qs]]
       /\ UNCHANGED <<catalogLock, db, diffVars>>
    \/ /\ At(p, o, "setpolicy")
       /\ proc' = [proc EXCEPT ![p] = Fail(p, "return")]
       /\ UNCHANGED <<catalogLock, db, diffVars>>

\* variant: the owner membership is granted only after the statements ran
resourcePostgreSQLSchemaUpdateLateElevation(p) ==
    \/ LockStep(p, "SchemaUpdate", "begin")
    \/ BeginStep(p, "SchemaUpdate", "begin", "setname")
    \/ SetSchemaAttr(p, "SchemaUpdate", "setname", "setowner", Stmt("ALTER_SCHEMA_RENAME", ""))
    \/ SetSchemaAttr(p, "SchemaUpdate", "setowner", "setpolicy", Stmt("ALTER_SCHEMA_OWNER", ""))
    \/ setSchemaPolicy(p, "SchemaUpdate", "elevate")
    \/ ExecQueries(p, "SchemaUpdate", "elevate")
    \/ SchemaElevate(p, "SchemaUpdate", "unelevate")
    \/ SchemaRevoke(p, "SchemaUpdate", "commit")
    \/ CommitStep(p, "SchemaUpdate", "commit", "getname")
    \/ resourcePostgreSQLSchemaReadImpl(p, "SchemaUpdate")

resourcePostgreSQLSchemaUpdate(p) ==
    \/ LockStep(p, "SchemaUpdate", "begin")
    \/ BeginStep(p, "SchemaUpdate", "begin", "elevate")
    \/ SchemaElevate(p, "SchemaUpdate", "setname")
    \/ SetSchemaAttr(p, "SchemaUpdate", "setname", "setowner", Stmt("ALTER_SCHEMA_RENAME", ""))
    \/ SetSchemaAttr(p, "SchemaUpdate", "setowner", "setpolicy", Stmt("ALTER_SCHEMA_OWNER", ""))
    \/ setSchemaPolicy(p, "SchemaUpdate", "unelevate")
    \/ ExecQueries(p, "SchemaUpdate", "unelevate")
    \/ SchemaRevoke(p, "SchemaUpdate", "commit")
    \/ CommitStep(p, "SchemaUpdate", "commit", "getname")
    \/ resourcePostgreSQLSchemaReadImpl(p, "SchemaUpdate")

resourcePostgreSQLSchemaRead(p) ==
    \/ RLockStep(p, "SchemaRead", "getname")
    \/ resourcePostgreSQLSchemaReadImpl(p, "SchemaRead")

\* getDBSchemaName, dbExists on the client's connection, then the lookup of
\* the schema in a transaction
resourcePostgreSQLSchemaExists(p) ==
    \/ RLockStep(p, "SchemaExists", "getname")
    \/ QueryStep(p, "SchemaExists", "getname", "dbexists")
    \/ QueryStep(p, "SchemaExists", "dbexists", "reread")
    \/ BeginReadStep(p, "SchemaExists", "reread", "readquery")
    \/ QueryStep(p, "SchemaExists", "readquery", "return")

(***************************************************************************)
(* Role membership handlers                                                *)
(***************************************************************************)
MemberStmts(k, ord) == [i \in 1..Len(ord) |-> Stmt(k, ord[i])]

\* removeMembersFromRole / addMembersToRole: c.DB().Exec(sql) for one member
\* after the other, outside any transaction, so that each statement that
\* succeeds is committed at once
MemberExec(p, o, next) ==
    /\ At(p, o, "exec")
    /\ proc[p].queries # <<>>
    /\ \E ok \in BOOLEAN :
          IF ok
          THEN /\ db' = Apply(db, Head(proc[p].queries))
               /\ proc' = [proc EXCEPT ![p] =
                              [@ EXCEPT !.pc = NextAfter(Tail(proc[p].queries), next),
                                        !.queries = Tail(@)]]
          ELSE /\ db' = db
               /\ proc' = [proc EXCEPT ![p] = Fail(p, "return")]
    /\ UNCHANGED <<catalogLock, diffVars>>

\* the declared members, in the order of the set's list
MemberQueries(p, o, k, next) ==
    /\ At(p, o, "members")
    /\ \E ms \in SUBSET Members : \E ord \in Orders(ms) :
          proc' = [proc EXCEPT ![p] =
                      [@ EXCEPT !.pc = NextAfter(MemberStmts(k, ord), next),
                                !.queries = MemberStmts(k, ord)]]
    /\ UNCHANGED <<catalogLock, db, diffVars>>

\* resourcePostgreSQLRoleReadImpl, called without taking the catalog lock
RoleReadImpl(p, o) == QueryStep(p, o, "rmread", "return")

resourcePostgreSQLRoleMembershipCreate(p) ==
    \/ LockStep(p, "RoleMembershipCreate", "members")
    \/ MemberQueries(p, "RoleMembershipCreate", "MEMBER_GRANT", "setid")
    \/ MemberExec(p, "RoleMembershipCreate", "setid")
    \/ SetIdStep(p, "RoleMembershipCreate", "setid", "rmread", "id")
    \/ RoleReadImpl(p, "RoleMembershipCreate")

resourcePostgreSQLRoleMembershipDelete(p) ==
    \/ LockStep(p, "RoleMembershipDelete", "members")
    \/ MemberQueries(p, "RoleMembershipDelete", "MEMBER_REVOKE", "return")
    \/ MemberExec(p, "RoleMembershipDelete", "return")

\* the members of the old set that are not in the new one are revoked, then
\* the members of the new set that are not in the old one are granted
UpdateMemberQueries(p, o, next) ==
    \/ /\ At(p, o, "members")
       /\ proc' = [proc EXCEPT ![p] = Goto(p, next)]
       /\ UNCHANGED <<catalogLock, db, diffVars>>
    \/ /\ At(p, o, "members")
       /\ \E os \in SUBSET Members, ns \in SUBSET Members :
          /\ os # ns
          /\ \E rOrd \in Orders(os \ ns), aOrd \in Orders(ns \ os) :
             LET qs == MemberStmts("MEMBER_REVOKE", rOrd) \o MemberStmts("MEMBER_GRANT", aOrd) IN
             proc' = [proc EXCEPT ![p] =
                         [@ EXCEPT !.pc = NextAfter(qs, next), !.queries = qs]]
       /\ UNCHANGED <<catalogLock, db, diffVars>>

resourcePostgreSQLRoleMembershipUpdate(p) ==
    \/ LockStep(p, "RoleMembershipUpdate", "members")
    \/ UpdateMemberQueries(p, "RoleMembershipUpdate", "rmread")
    \/ MemberExec(p, "RoleMembershipUpdate", "rmread")
    \/ RoleReadImpl(p, "RoleMembershipUpdate")

\* read takes no lock: it queries the members and returns
resourcePostgreSQLRoleMembershipRead(p) ==
    \/ /\ proc[p].pc = "idle"
       /\ proc' = [proc EXCEPT ![p] = [@ EXCEPT !.op = "RoleMembershipRead", !.pc = "rmread"]]
       /\ UNCHANGED <<catalogLock, db, diffVars>>
    \/ /\ At(p, "RoleMembershipRead", "rmread")
       /\ proc' = [proc EXCEPT ![p] = IdleProc]
       /\ UNCHANGED <<catalogLock, db, diffVars>>

(***************************************************************************)
(* Spec: the handlers run by the workers of one client                     *)
(***************************************************************************)
Init ==
    /\ catalogLock = [writer |-> NoProc, readers |-> {}]
    /\ db = FreshDb
    /\ proc = [p \in Procs |-> IdleProc]
    /\ diffOld = <<>>
    /\ diffNew = <<>>
    /\ diffRes = NoResult
    /\ polFound = {}
    /\ polRun1 = NoResult
    /\ polRun2 = NoResult
    /\ aclPolicies = <<>>
    /\ aclValue = NoResult
    /\ NoReadRuns

Next ==
    \E p \in Procs :
        \/ Invoke(p)
        \/ resourcePostgreSQLGrantCreate(p)
        \/ resourcePostgreSQLGrantDelete(p)
        \/ resourcePostgreSQLGrantRead(p)
        \/ resourcePostgreSQLSchemaCreate(p)
        \/ resourcePostgreSQLSchemaUpdate(p)
        \/ resourcePostgreSQLSchemaDelete(p)
        \/ resourcePostgreSQLSchemaRead(p)
        \/ resourcePostgreSQLSchemaExists(p)
        \/ resourcePostgreSQLExtensionCreate(p)
        \/ resourcePostgreSQLExtensionUpdate(p)
        \/ resourcePostgreSQLExtensionDelete(p)
        \/ resourcePostgreSQLExtensionRead(p)
        \/ resourcePostgreSQLExtensionExists(p)
        \/ resourcePostgreSQLRoleMembershipCreate(p)
        \/ resourcePostgreSQLRoleMembershipUpdate(p)
        \/ resourcePostgreSQLRoleMembershipDelete(p)
        \/ resourcePostgreSQLRoleMembershipRead(p)
        \/ DeferredRollback(p)
        \/ DeferredUnlock(p)

Spec == Init /\ [][Next]_vars

(***************************************************************************)
(* Properties of the handlers                                              *)
(***************************************************************************)
SchemaWrites == {"SchemaCreate", "SchemaUpdate", "SchemaDelete"}

\* positions of the statements of kind k in a trace
Pos(tr, k) == {i \in 1..Len(tr) : tr[i].k = k}
Has(tr, k) == Pos(tr, k) # {}

\* the handler on worker p has run its deferred rollbacks and is about to
\* release the lock and return
Returning(p) == proc[p].pc = "unlock"

\* C1: two write handlers never run their statement sequences at the same
\* time on one client: while a write handler is between taking the lock and
\* releasing it, it holds the catalog lock exclusively (in particular for as
\* long as one of its transactions is open), no other write handler is in
\* that section, and a waiting handler cannot get the lock.
C1_WritesSerialized ==
    \A p \in Procs :
        proc[p].op \in WriteOps =>
            /\ catalogLock.writer = p
            /\ catalogLock.readers = {}
            /\ \A q \in Procs \ {p} : proc[q].op \notin WriteOps
            /\ ~CanLock(catalogLock) /\ ~CanRLock(catalogLock)

\* a write handler has executed statements in its open transaction while
\* another call waits for the exclusive lock
C1_Witness ==
    \E p \in Procs, q \in Procs :
        /\ p # q
        /\ proc[p].op = "SchemaUpdate"
        /\ proc[p].txn = "open"
        /\ Has(proc[p].trace, "REVOKE")
        /\ proc[q].pc = "waitLock"

\* C2: a schema create, update or delete that found the connection user
\* outside the owner role returns with the user outside the owner role in
\* the committed catalog, whether it succeeded or failed.
C2_MembershipRestored ==
    \A p \in Procs :
        (proc[p].op \in SchemaWrites /\ Returning(p) /\ Actor \notin proc[p].pre.grp)
            => Actor \notin db.grp

\* a schema handler that granted the membership, committed and is returning
C2_Witness ==
    \E p \in Procs :
        /\ proc[p].op \in SchemaWrites /\ Returning(p)
        /\ Actor \notin proc[p].pre.grp
        /\ Has(proc[p].trace, "ELEV_GRANT")
        /\ proc[p].txn = "committed"

\* C3: a handler whose statement failed before its commit leaves the
\* committed catalog as it found it.
C3_FailedOperationLeavesCatalog ==
    \A p \in Procs :
        (Returning(p) /\ proc[p].err /\ proc[p].txn # "committed")
            => db = proc[p].pre

\* C5: in the statements of one handler call, no REVOKE of a role's
\* privileges follows a GRANT to the same role, and all of them are executed
\* in the one transaction, before its commit.
C5_RevokeBeforeGrantPerRole ==
    \A p \in Procs :
        LET tr == proc[p].trace IN
        /\ \A i \in Pos(tr, "GRANT"), j \in Pos(tr, "REVOKE") :
              ToLower(tr[i].role) = ToLower(tr[j].role) => j < i
        /\ \A c \in Pos(tr, "COMMIT") : c = Len(tr)

\* a handler that revoked and then granted the privileges of one role
C5_Witness ==
    \E p \in Procs :
        LET tr == proc[p].trace IN
        /\ proc[p].op = "SchemaUpdate"
        /\ \E i \in Pos(tr, "REVOKE"), j \in Pos(tr, "GRANT") :
              i < j /\ tr[i].role = "alice" /\ tr[j].role = "alice"
        /\ Has(tr, "COMMIT")

\* phase of a statement in the order the specification gives
Phase(s) == CASE s.k = "ELEV_GRANT"  -> 1
              [] s.k = "REVOKE"      -> 2
              [] s.k = "GRANT"       -> 3
              [] s.k = "ELEV_REVOKE" -> 4
              [] s.k = "COMMIT"      -> 5

Bracket(s) == CASE s.k = "ELEV_GRANT"  -> 1
                [] s.k = "REVOKE"      -> 2
                [] s.k = "GRANT"       -> 2
                [] s.k = "ELEV_REVOKE" -> 3
                [] s.k = "COMMIT"      -> 4

C7_NoRevokeOfForeignMembership ==
    \A p \in Procs :
        LET tr == proc[p].trace IN
        /\ (proc[p].op \in SchemaWrites /\ Actor \in proc[p].pre.grp) =>
              /\ ~Has(tr, "ELEV_GRANT") /\ ~Has(tr, "ELEV_REVOKE")
              /\ proc[p].txn = "open" => Actor \in proc[p].txdb.grp
              /\ Returning(p) => Actor \in db.grp
        /\ \A j \in Pos(tr, "ELEV_REVOKE") : \E i \in Pos(tr, "ELEV_GRANT") : i < j

\* a schema update by a user who already was a member: it ran its privilege
\* statements, committed and is returning
C7_Witness ==
    \E p \in Procs :
        /\ proc[p].op = "SchemaUpdate" /\ Returning(p)
        /\ Actor \in proc[p].pre.grp
        /\ Has(proc[p].trace, "GRANT")
        /\ proc[p].txn = "committed"

\* C8 as stated: a schema handler that granted the owner membership has
\* executed its REVOKE by the time it returns, whatever the outcome.
C8_RevokeOnEveryPath ==
    \A p \in Procs :
        (proc[p].op \in SchemaWrites /\ Returning(p) /\ Has(proc[p].trace, "ELEV_GRANT"))
            => Has(proc[p].trace, "ELEV_REVOKE")

\* C8, amended: a schema handler that granted the owner membership executes
\* the REVOKE in the same transaction before it commits; when a statement
\* failed it executes no REVOKE and returns the error with the transaction
\* rolled back, never committed.
C8_RevokeOrRollback ==
    \A p \in Procs :
        LET tr == proc[p].trace IN
        (proc[p].op \in SchemaWrites /\ Has(tr, "ELEV_GRANT")) =>
            /\ \A c \in Pos(tr, "COMMIT") : \E r \in Pos(tr, "ELEV_REVOKE") : r < c
            /\ proc[p].txn = "committed" => Has(tr, "ELEV_REVOKE")
            /\ (Returning(p) /\ ~Has(tr, "ELEV_REVOKE")) =>
                  proc[p].err /\ proc[p].txn = "rolledback"

\* a schema handler returning after a statement failed under the elevation:
\* no REVOKE was executed and the transaction is rolled back
C8_Witness ==
    \E p \in Procs :
        /\ proc[p].op \in SchemaWrites /\ Returning(p)
        /\ Has(proc[p].trace, "ELEV_GRANT") /\ ~Has(proc[p].trace, "ELEV_REVOKE")
        /\ proc[p].txn = "rolledback"

\* C9: no read handler runs while a write handler is between taking the
\* lock and releasing it.
C9_NoReadDuringWrite ==
    \A p \in Procs, q \in Procs :
        ~(proc[p].op \in ReadOps /\ proc[q].op \in WriteOps)

\* C10: a read handler that is running holds the catalog lock shared.
C10_ReadsHoldSharedLock ==
    \A p \in Procs :
        proc[p].op \in ReadOps => (p \in catalogLock.readers /\ catalogLock.writer # p)

\* worker p holds the catalog lock, exclusively or shared
HoldsLock(p) == catalogLock.writer = p \/ p \in catalogLock.readers

\* worker p is inside a handler: called and not yet returned
InHandler(p) == proc[p].op # "none"

\* C11: a worker that is in no handler (idle, or called and still waiting
\* for the lock) holds no lock, so every handler that took the lock has
\* released it when it returns, with or without an error; with no handler
\* in progress the lock is free.
C11_LockReleasedOnReturn ==
    /\ \A p \in Procs : ~InHandler(p) => ~HoldsLock(p)
    /\ catalogLock.writer \in Procs \cup {NoProc}
    /\ catalogLock.readers \subseteq Procs
    /\ (\A p \in Procs : ~InHandler(p)) =>
          (catalogLock.writer = NoProc /\ catalogLock.readers = {})

\* a handler that failed holds the lock and is about to return, while the
\* other worker has already returned from a committed schema create
C11_Witness ==
    \E p \in Procs, q \in Procs :
        /\ p # q
        /\ Returning(p) /\ proc[p].err /\ catalogLock.writer = p
        /\ proc[q].pc = "idle" /\ db.schema

\* C12: a transaction is open only while its handler holds the catalog
\* lock; a handler that has run its deferred calls up to the unlock has no
\* open transaction left (each is committed or rolled back) and still holds
\* the lock; a transaction that was not committed is rolled back.
C12_TransactionsEnded ==
    \A p \in Procs :
        /\ (proc[p].txn = "open" \/ proc[p].txn2 = "open") => HoldsLock(p)
        /\ (Returning(p) /\ proc[p].op # "RoleMembershipRead") =>
              /\ proc[p].txn \in {"none", "committed", "rolledback"}
              /\ proc[p].txn2 \in {"none", "rolledback"}
              /\ HoldsLock(p)
        /\ ~InHandler(p) => (proc[p].txn = "none" /\ proc[p].txn2 = "none")

\* a grant create whose write transaction committed and whose read
\* transaction was rolled back by the deferred call, still under the lock
C12_Witness ==
    \E p \in Procs :
        /\ proc[p].op = "GrantCreate" /\ Returning(p)
        /\ proc[p].txn = "committed" /\ proc[p].txn2 = "rolledback"
        /\ catalogLock.writer = p

\* the read handlers that work under the catalog lock
LockedReadOps == {"GrantRead", "SchemaRead", "SchemaExists",
                  "ExtensionRead", "ExtensionExists"}

\* C22: a read operation (grant read, schema read/exists, extension
\* read/exists) never writes to the database: while it runs the committed
\* catalog is the one it found, it opens no write transaction and executes
\* no statement, and when it returns every transaction it opened has been
\* rolled back; only the resource's identifier may have changed.
C22_ReadsNeverWrite ==
    \A p \in Procs :
        proc[p].op \in LockedReadOps =>
            /\ db = proc[p].pre
            /\ proc[p].txn = "none" /\ proc[p].txdb = NoDb
            /\ proc[p].trace = <<>>
            /\ proc[p].txn2 \in {"none", "open", "rolledback"}
            /\ Returning(p) => proc[p].txn2 \in {"none", "rolledback"}

\* a schema read that found its schema in a catalog other workers have
\* written to before, and whose transaction was rolled back on return
C22_Witness ==
    \E p \in Procs :
        /\ proc[p].op = "SchemaRead" /\ Returning(p) /\ ~proc[p].err
        /\ proc[p].txn2 = "rolledback" /\ proc[p].id = "id"
        /\ db.schema /\ db.privs /\ db = proc[p].pre

\* C26: a missing object is a soft signal: a read that finds the role,
\* database or schema of its grant, its schema or its extension missing
\* returns no error and has cleared the identifier; a schema or extension
\* read that returns without error while the catalog has no such object
\* has found it missing.
C26_MissingObjectIsSoft ==
    \A p \in Procs :
        /\ proc[p].missing =>
              (~proc[p].err /\ proc[p].id = "" /\ proc[p].pc \in {"return", "unlock"})
        /\ (proc[p].op = "SchemaRead" /\ Returning(p) /\ ~proc[p].err /\ ~db.schema) =>
              (proc[p].missing /\ proc[p].id = "")
        /\ (proc[p].op = "ExtensionRead" /\ Returning(p) /\ ~proc[p].err /\ ~db.ext) =>
              (proc[p].missing /\ proc[p].id = "")

\* an extension read that found the extension gone from a catalog that
\* has a schema, and returns without error and without identifier
C26_Witness ==
    \E p \in Procs :
        /\ proc[p].op = "ExtensionRead" /\ Returning(p)
        /\ proc[p].missing /\ ~proc[p].err /\ proc[p].id = ""
        /\ proc[p].txn2 = "rolledback" /\ ~db.ext /\ db.schema

\* C27: a grant or extension handler that finds the feature unsupported
\* returns its error having taken no catalog lock, opened no transaction
\* and executed no statement and with the resource untouched: the worker's
\* record shows the error and nothing else, whoever holds the lock.
C27_UnsupportedFeatureRejected ==
    \A p \in Procs :
        proc[p].pc = "rejected" =>
            /\ proc[p] = [IdleProc EXCEPT !.pc = "rejected", !.err = TRUE]
            /\ ~HoldsLock(p)

\* a handler rejected while the other worker holds the lock exclusively
\* with an open transaction that has executed a statement
C27_Witness ==
    \E p \in Procs, q \in Procs :
        /\ proc[p].pc = "rejected" /\ proc[p].err
        /\ catalogLock.writer = q /\ proc[q].txn = "open"
        /\ proc[q].op = "ExtensionCreate" /\ proc[q].pc = "commit"

\* the create handlers that work in a transaction, and the delete handlers
\* that clear the identifier themselves
TxCreateOps == {"GrantCreate", "SchemaCreate", "ExtensionCreate"}
IdDeleteOps == {"SchemaDelete", "ExtensionDelete"}

\* C29: the identifier follows the committed state. A create has a
\* non-empty identifier only once its transaction is committed, so it is
\* unset when a step up to and including the commit failed, and it is set
\* when the read pass after the commit starts; a schema or extension
\* delete has cleared the identifier only once its transaction is
\* committed, and has cleared it when it returns without error.
C29_IdFollowsCommit ==
    \A p \in Procs :
        /\ proc[p].op \in TxCreateOps =>
              /\ proc[p].id # "" => proc[p].txn = "committed"
              /\ (Returning(p) /\ proc[p].txn # "committed") =>
                    (proc[p].err /\ proc[p].id = "")
              /\ proc[p].pc \in {"getname", "reread"} =>
                    (proc[p].txn = "committed" /\ proc[p].id = "id")
        /\ proc[p].op \in IdDeleteOps =>
              /\ proc[p].id = "" => proc[p].txn = "committed"
              /\ (Returning(p) /\ ~proc[p].err) =>
                    (proc[p].txn = "committed" /\ proc[p].id = "")

\* a grant create without elevation whose REVOKE and GRANT succeeded and
\* whose commit failed: it returns the error without identifier
C29_Witness ==
    \E p \in Procs :
        /\ proc[p].op = "GrantCreate" /\ Returning(p) /\ proc[p].err
        /\ Has(proc[p].trace, "GRANT") /\ ~Has(proc[p].trace, "ELEV_GRANT")
        /\ proc[p].txn = "rolledback" /\ proc[p].id = ""

\* C30: a failure of the elevation revoke is reported. The step of a schema
\* handler that granted the owner membership and has run its wrapped
\* statements either executes the REVOKE, or returns the error with the
\* transaction still uncommitted and the committed catalog untouched; and a
\* handler whose granted membership was not revoked never has a committed
\* transaction.
C30_RevokeFailureReported ==
    /\ [][\A p \in Procs :
            (/\ proc[p].op \in SchemaWrites /\ proc[p].pc = "unelevate"
             /\ proc[p].granted /\ proc'[p] # proc[p]) =>
                \/ /\ proc'[p].trace = Append(proc[p].trace, Stmt("ELEV_REVOKE", OwnerRole))
                   /\ ~proc'[p].err /\ proc'[p].pc = "commit"
                \/ /\ proc'[p].err /\ proc'[p].pc = "return"
                   /\ proc'[p].trace = proc[p].trace
                   /\ proc'[p].txn = "open" /\ db' = db]_vars
    /\ [](\A p \in Procs :
            (/\ proc[p].op \in SchemaWrites /\ proc[p].granted
             /\ ~Has(proc[p].trace, "ELEV_REVOKE")) =>
                (proc[p].txn # "committed" /\ Actor \notin db.grp))

\* a schema create that granted the membership, executed every queued
\* statement, and returns the error of the failed revoke, rolled back
C30_Witness ==
    \E p \in Procs :
        /\ proc[p].op = "SchemaCreate" /\ Returning(p) /\ proc[p].err
        /\ proc[p].granted /\ proc[p].queries = <<>>
        /\ Has(proc[p].trace, "ELEV_GRANT") /\ Has(proc[p].trace, "GRANT")
        /\ ~Has(proc[p].trace, "ELEV_REVOKE")
        /\ proc[p].txn = "rolledback" /\ proc[p].id = "" /\ Actor \notin db.grp

\* every statement of kind a in the trace comes before every one of kind b
AllBefore(tr, a, b) == \A i \in Pos(tr, a), j \in Pos(tr, b) : i < j

\* C31: a grant delete that returns success has committed; the role holds
\* none of the declared privileges in the committed catalog; the connection
\* user is a member of the owner role exactly if it was before; and the
\* statements ran in the order elevation (when one was needed), REVOKE of
\* the privileges, revoke of the elevation, commit.
C31_GrantDeleteRevokes ==
    \A p \in Procs :
        (proc[p].op = "GrantDelete" /\ Returning(p) /\ ~proc[p].err) =>
            LET tr == proc[p].trace IN
            /\ proc[p].txn = "committed"
            /\ ~db.privs
            /\ (Actor \in db.grp) = (Actor \in proc[p].pre.grp)
            /\ Has(tr, "REVOKE") /\ Has(tr, "COMMIT")
            /\ AllBefore(tr, "REVOKE", "COMMIT")
            /\ ~Has(tr, "GRANT")
            /\ Has(tr, "ELEV_GRANT") <=> Has(tr, "ELEV_REVOKE")
            /\ Has(tr, "ELEV_GRANT") =>
                  /\ AllBefore(tr, "ELEV_GRANT", "REVOKE")
                  /\ AllBefore(tr, "REVOKE", "ELEV_REVOKE")
                  /\ AllBefore(tr, "ELEV_REVOKE", "COMMIT")

\* a successful delete of a grant whose role held the privileges, run by a
\* connection user that had to be elevated
C31_Witness ==
    \E p \in Procs :
        /\ proc[p].op = "GrantDelete" /\ Returning(p) /\ ~proc[p].err
        /\ proc[p].pre.privs /\ ~db.privs
        /\ Actor \notin proc[p].pre.grp
        /\ Has(proc[p].trace, "ELEV_GRANT") /\ Has(proc[p].trace, "ELEV_REVOKE")
        /\ proc[p].txn = "committed"

\* the statements of kind k a worker has queued and not yet executed
Queued(p, k) == \E i \in DOMAIN proc[p].queries : proc[p].queries[i].k = k

\* C36: the existence check and the CREATE SCHEMA of a schema create are one
\* step for every other operation. A create that took the lock when the
\* schema was already committed never queues CREATE SCHEMA; while a create
\* has CREATE SCHEMA queued it holds the exclusive lock, its transaction is
\* open (or rolled back, once the handler has failed and is returning) and
\* the schema is still absent from the committed catalog; so two creates
\* never both have it queued.
C36_CreateIfAbsentIsAtomic ==
    /\ \A p \in Procs :
          proc[p].op = "SchemaCreate" =>
             /\ (proc[p].pre # NoDb /\ proc[p].pre.schema) => ~Queued(p, "CREATE_SCHEMA")
             /\ Queued(p, "CREATE_SCHEMA") =>
                   /\ catalogLock.writer = p
                   /\ proc[p].txn = IF proc[p].pc = "unlock" THEN "rolledback" ELSE "open"
                   /\ ~db.schema
    /\ \A p, q \in Procs :
          (p # q /\ Queued(p, "CREATE_SCHEMA")) => ~Queued(q, "CREATE_SCHEMA")

\* a create that waited for the lock while another worker's create of the
\* schema committed: it found the schema, queued no CREATE SCHEMA, went
\* through the owner path and committed
C36_Witness ==
    \E p \in Procs :
        /\ proc[p].op = "SchemaCreate" /\ Returning(p) /\ ~proc[p].err
        /\ proc[p].pre.schema /\ proc[p].txn = "committed"
        /\ db.schema

\* C39: at the existence lookup of schema create, with the schema absent
\* the handler queues CREATE SCHEMA (no row) or returns the error of the
\* lookup; with the schema present it takes the set-owner path with nothing
\* queued, or returns the error of the lookup.
C39_LookupErrorReturned ==
    [][\A p \in Procs :
          (proc[p].op = "SchemaCreate" /\ proc[p].pc = "lookup" /\ proc'[p] # proc[p]) =>
             \/ /\ ~proc[p].txdb.schema
                /\ proc'[p].pc = "policies"
                /\ proc'[p].queries = <<Stmt("CREATE_SCHEMA", "")>>
             \/ /\ proc[p].txdb.schema
                /\ proc'[p].pc = "setowner"
                /\ proc'[p].queries = <<>>
             \/ /\ proc'[p].err
                /\ proc'[p].pc = "return"]_vars

\* the positions of the read pass that ends create and update
RereadPositions == {"getname", "reread", "readquery", "rmread"}

\* C38: a worker that is waiting for the catalog lock, shared or exclusive,
\* does not hold it; and the read pass at the end of a create or update
\* runs with the exclusive lock its handler took at the start still held.
C38_NoLockWhileHolding ==
    \A p \in Procs :
        /\ proc[p].pc \in {"waitLock", "waitRLock"} => ~HoldsLock(p)
        /\ (proc[p].op \in WriteOps /\ proc[p].pc \in RereadPositions) =>
              (catalogLock.writer = p /\ p \notin catalogLock.readers)

\* a schema create that committed and set its identifier is in its read
\* pass, still the writer of the lock, while the other worker waits
C38_Witness ==
    \E p, q \in Procs :
        /\ proc[p].op = "SchemaCreate" /\ proc[p].pc = "reread"
        /\ proc[p].txn = "committed" /\ proc[p].id = "id"
        /\ catalogLock.writer = p
        /\ proc[q].pc = "waitRLock"

(***************************************************************************)
(* SpecLive: grant create and grant read called again and again on the     *)
(* two workers, under fair scheduling                                      *)
(***************************************************************************)
\* the step in which Lock() or RLock() returns to the handler on worker p
LockAcquire(p) ==
    \/ LockStep(p, "GrantCreate", "begin")
    \/ RLockStep(p, "GrantRead", "check")

\* the steps of the handler on worker p once it has the lock, up to the
\* deferred unlock; the return of a rejected call is among them
HandlerProgress(p) ==
    \/ /\ proc[p].pc \notin {"waitLock", "waitRLock"}
       /\ (resourcePostgreSQLGrantCreate(p) \/ resourcePostgreSQLGrantRead(p))
    \/ DeferredRollback(p)
    \/ DeferredUnlock(p)

NextLive ==
    \E p \in Procs :
        \/ Invoke(p)
        \/ resourcePostgreSQLGrantCreate(p)
        \/ resourcePostgreSQLGrantRead(p)
        \/ DeferredRollback(p)
        \/ DeferredUnlock(p)

\* sync.RWMutex hands the lock to a blocked Lock() once the holders have
\* released it, new readers waiting behind it, and to the blocked RLock()
\* calls once the writer has released it; a handler that has the lock runs
\* on: its database calls return. The framework need not call again.
FairLive ==
    \A p \in Procs : SF_vars(LockAcquire(p)) /\ WF_vars(HandlerProgress(p))

SpecLive == Init /\ [][NextLive]_vars /\ FairLive

Waiting(p) == proc[p].pc \in {"waitLock", "waitRLock"}

InitDiff ==
    /\ diffOld \in ListsUpTo(DiffPolicies, MaxPolicies)
    /\ diffNew \in ListsUpTo(DiffPolicies, MaxPolicies)
    /\ diffRes = NoResult
    /\ polFound = {}
    /\ polRun1 = NoResult
    /\ polRun2 = NoResult
    /\ aclPolicies = <<>>
    /\ aclValue = NoResult
    /\ catalogLock = [writer |-> NoProc, readers |-> {}]
    /\ db = FreshDb
    /\ proc = [p \in Procs |-> IdleProc]
    /\ NoReadRuns

RunDiff ==
    /\ diffRes = NoResult
    /\ diffRes' = schemaChangedPolicies(diffOld, diffNew)
    /\ UNCHANGED <<diffOld, diffNew, polVars, aclVars, readVars>>
    /\ UNCHANGED opVars

NextDiff == RunDiff

SpecDiff == InitDiff /\ [][NextDiff]_vars

\* role keys of a list, computed from the declarations themselves
RoleKeys(list) == {ToLower(list[i].role) : i \in {j \in 1..Len(list) : HasRole(list[j])}}

Buckets == {"dropped", "added", "updated", "unchanged"}

\* C4: the four buckets of schemaChangedPolicies(old, new) partition the
\* union of the lowercased role keys of old and new: every key of the union
\* is in exactly one bucket and no bucket holds a key outside the union.
C4_DiffPartition ==
    diffRes # NoResult =>
        /\ \A k \in RoleKeys(diffOld) \cup RoleKeys(diffNew) :
              Cardinality({b \in Buckets : k \in DOMAIN diffRes[b]}) = 1
        /\ \A b \in Buckets :
              DOMAIN diffRes[b] \subseteq RoleKeys(diffOld) \cup RoleKeys(diffNew)

\* a diff whose input fills all four buckets' cases at least partly: a key
\* present in both lists with different declarations, given in two cases
C4_Witness ==
    /\ diffRes # NoResult
    /\ DOMAIN diffRes.updated # {}
    /\ DOMAIN diffRes.dropped # {}
    /\ Len(diffOld) = 2
    /\ \E i \in 1..Len(diffNew) : HasRole(diffNew[i]) /\ diffNew[i].role = "Alice"

\* the declarations of a list that carry a role, and their roles
Declared(list) == {list[i] : i \in {j \in 1..Len(list) : HasRole(list[j])}}

\* two role names that are equal up to letter case
SameRoleIgnoringCase(a, b) == a = b \/ {a, b} = {"alice", "Alice"}

\* the declarations of a list for the role of key k
DeclsOf(list, k) == {d \in Declared(list) : SameRoleIgnoringCase(d.role, k)}

\* C13: a role key with declarations only in old is in dropped with an old
\* declaration; only in new, in added with a new declaration; in both, in
\* unchanged with a declaration equal in both lists or in updated with the
\* pair (old declaration, new declaration) of two different declarations;
\* with one declaration per list the role is unchanged exactly when the two
\* declarations are equal.
C13_DiffClassification ==
    diffRes # NoResult =>
        \A k \in {"", "alice"} :
            LET O == DeclsOf(diffOld, k)
                N == DeclsOf(diffNew, k)
            IN  /\ (O # {} /\ N = {}) =>
                      (k \in DOMAIN diffRes.dropped /\ diffRes.dropped[k] \in O)
                /\ (O = {} /\ N # {}) =>
                      (k \in DOMAIN diffRes.added /\ diffRes.added[k] \in N)
                /\ (O # {} /\ N # {}) =>
                      \/ /\ k \in DOMAIN diffRes.unchanged
                         /\ diffRes.unchanged[k] \in O \cap N
                      \/ /\ k \in DOMAIN diffRes.updated
                         /\ diffRes.updated[k][1] \in O
                         /\ diffRes.updated[k][2] \in N
                         /\ diffRes.updated[k][1] # diffRes.updated[k][2]
                /\ (Cardinality(O) = 1 /\ Cardinality(N) = 1) =>
                      (k \in DOMAIN diffRes.unchanged <=> O = N)

\* a diff with an unchanged role and an updated role whose declarations
\* differ in the create flag
C13_Witness ==
    /\ diffRes # NoResult
    /\ "" \in DOMAIN diffRes.unchanged
    /\ "alice" \in DOMAIN diffRes.updated
    /\ diffRes.updated["alice"][1].create /\ ~diffRes.updated["alice"][2].create

\* C14: when a declaration of old and a declaration of new name the same
\* role in different letter case, no bucket entry for that role is in
\* dropped or added; the role is in updated or unchanged, under one key.
C14_CaseInsensitiveKeys ==
    diffRes # NoResult =>
        \A o \in Declared(diffOld), n \in Declared(diffNew) :
            (o.role # n.role /\ SameRoleIgnoringCase(o.role, n.role)) =>
                /\ \A k \in DOMAIN diffRes.dropped :
                      ~SameRoleIgnoringCase(diffRes.dropped[k].role, o.role)
                /\ \A k \in DOMAIN diffRes.added :
                      ~SameRoleIgnoringCase(diffRes.added[k].role, n.role)
                /\ Cardinality({k \in DOMAIN diffRes.updated \cup DOMAIN diffRes.unchanged :
                                   SameRoleIgnoringCase(k, o.role)}) = 1

\* old names "Alice", new names "alice", with the same flags: one key, updated
C14_Witness ==
    /\ diffRes # NoResult
    /\ Len(diffOld) = 1 /\ Len(diffNew) = 1
    /\ HasRole(diffOld[1]) /\ HasRole(diffNew[1])
    /\ diffOld[1].role = "Alice" /\ diffNew[1].role = "alice"
    /\ diffOld[1].create = diffNew[1].create
    /\ DOMAIN diffRes.updated = {"alice"}

\* union of the privileges, and of the grant options, of a set of policies
UnionPrivileges(ds) == UNION {schemaPolicyToACL(d).privileges : d \in ds}
UnionGrantOptions(ds) == UNION {schemaPolicyToACL(d).grantOptions : d \in ds}

\* the entry of key k in a role-keyed container combines all declarations ds
Combines(a, ds) ==
    /\ a.privileges = UnionPrivileges(ds)
    /\ a.grantOptions = UnionGrantOptions(ds)

\* C15: in the policy map of create and in the two lookup maps of the diff,
\* the entry of a role key carries the union of the privileges and grant
\* options of all declarations of the list with that key.
C15_MergeOnCollision ==
    diffRes # NoResult =>
        \A list \in {diffOld, diffNew} :
            /\ \A k \in DOMAIN LookupMap(list) :
                  Combines(schemaPolicyToACL(LookupMap(list)[k]), DeclsOf(list, k))
            /\ \A k \in DOMAIN CreatePolicyMap(list) :
                  Combines(CreatePolicyMap(list)[k],
                           {list[i] : i \in {j \in 1..Len(list) :
                                ToLower(schemaPolicyToACL(list[j]).role) = k}})

(***************************************************************************)
(* SpecPolicy: two runs of setSchemaPolicy on the same old and new lists   *)
(* and the same pg_roles                                                   *)
(***************************************************************************)
InitPolicy ==
    /\ diffOld \in ListsUpTo(DiffPolicies, MaxPolicies)
    /\ diffNew \in ListsUpTo(DiffPolicies, MaxPolicies)
    /\ diffRes = NoResult
    /\ polFound \in SUBSET (RoleNames \ {""})
    /\ polRun1 = NoResult
    /\ polRun2 = NoResult
    /\ aclPolicies = <<>>
    /\ aclValue = NoResult
    /\ catalogLock = [writer |-> NoProc, readers |-> {}]
    /\ db = FreshDb
    /\ proc = [p \in Procs |-> IdleProc]
    /\ NoReadRuns

\* the dropped role keys whose role the pg_roles lookup finds
FoundKeys(ch) == {k \in DOMAIN ch.dropped : ch.dropped[k].role \in polFound}

\* the statement queues setSchemaPolicy may build: none without a change of
\* the policy attribute, else one per order of ranging over the buckets
PolicyRuns ==
    IF diffOld = diffNew THEN {<<>>}
    ELSE {PolicySQL(diffRes, FoundKeys(diffRes), dOrd, aOrd, uOrd) :
             dOrd \in Orders(DOMAIN diffRes.dropped),
             aOrd \in Orders(DOMAIN diffRes.added),
             uOrd \in Orders(DOMAIN diffRes.updated)}

RunPolicy1 ==
    /\ diffRes # NoResult /\ polRun1 = NoResult
    /\ polRun1' \in {[stmts |-> q] : q \in PolicyRuns}
    /\ UNCHANGED <<diffOld, diffNew, diffRes, polFound, polRun2, aclVars, readVars, opVars>>

RunPolicy2 ==
    /\ polRun1 # NoResult /\ polRun2 = NoResult
    /\ polRun2' \in {[stmts |-> q] : q \in PolicyRuns}
    /\ UNCHANGED <<diffOld, diffNew, diffRes, polFound, polRun1, aclVars, readVars, opVars>>

NextPolicy == RunDiff \/ RunPolicy1 \/ RunPolicy2

SpecPolicy == InitPolicy /\ [][NextPolicy]_vars

\* the statements of a queue, as a set
StmtsOf(q) == {q[i] : i \in 1..Len(q)}

\* C16: for identical old and new lists the diff puts every role key in
\* unchanged and none in dropped, added or updated, the buckets yield no
\* statement, and each run of setSchemaPolicy queues zero statements.
C16_IdenticalListsNoStatements ==
    diffOld = diffNew =>
        /\ diffRes # NoResult =>
              /\ DOMAIN diffRes.dropped = {}
              /\ DOMAIN diffRes.added = {}
              /\ DOMAIN diffRes.updated = {}
              /\ DOMAIN diffRes.unchanged = RoleKeys(diffOld)
              /\ PolicySQL(diffRes, FoundKeys(diffRes), <<>>, <<>>, <<>>) = <<>>
        /\ polRun1 # NoResult => polRun1.stmts = <<>>
        /\ polRun2 # NoResult => polRun2.stmts = <<>>

\* the same two-role policy applied a second time: both runs are done
C16_Witness ==
    /\ diffOld = diffNew
    /\ polRun2 # NoResult
    /\ diffRes # NoResult
    /\ DOMAIN diffRes.unchanged = {"", "alice"}

DeclaredACL(list) ==
    [r \in RoleNames |-> UnionPrivileges({d \in Declared(list) : d.role = r})]

\* effect of a queue of statements on the privileges of the roles
RECURSIVE ApplySQL(_, _)
ApplySQL(acl, q) ==
    IF q = <<>> THEN acl
    ELSE ApplySQL([acl EXCEPT ![Head(q).role] =
                      IF Head(q).k = "GRANT" THEN @ \cup {Head(q).priv}
                      ELSE @ \ {Head(q).priv}],
                  Tail(q))

C19_SameInputSameStatements ==
    (polRun1 # NoResult /\ polRun2 # NoResult) => polRun1 = polRun2

(***************************************************************************)
(* SpecACL: the policy map of create built from bounded policy lists with  *)
(* every combination of the four flags                                     *)
(***************************************************************************)
AclPolicies ==
    {PolicyMap(r, c, cg, u, ug) :
        r \in RoleNames, c \in BOOLEAN, cg \in BOOLEAN, u \in BOOLEAN, ug \in BOOLEAN}

InitACL ==
    /\ aclPolicies \in ListsUpTo(AclPolicies, MaxPolicies) \ {<<>>}
    /\ aclValue = NoResult
    /\ diffOld = <<>>
    /\ diffNew = <<>>
    /\ diffRes = NoResult
    /\ polFound = {}
    /\ polRun1 = NoResult
    /\ polRun2 = NoResult
    /\ catalogLock = [writer |-> NoProc, readers |-> {}]
    /\ db = FreshDb
    /\ proc = [p \in Procs |-> IdleProc]
    /\ NoReadRuns

\* the loop of create over the declared policies
BuildPolicyMap ==
    /\ aclValue = NoResult
    /\ aclValue' = [m |-> CreatePolicyMap(aclPolicies)]
    /\ UNCHANGED <<aclPolicies, diffOld, diffNew, diffRes, polVars, readVars, opVars>>

NextACL == BuildPolicyMap

SpecACL == InitACL /\ [][NextACL]_vars

\* C20: the acl.Schema value of every declared policy, and every entry of
\* the policy map built from them by merging, has its grant options among
\* its privileges.
C20_GrantOptionsWithinPrivileges ==
    /\ \A i \in 1..Len(aclPolicies) :
          schemaPolicyToACL(aclPolicies[i]).grantOptions
              \subseteq schemaPolicyToACL(aclPolicies[i]).privileges
    /\ aclValue # NoResult =>
          \A k \in DOMAIN aclValue.m :
              aclValue.m[k].grantOptions \subseteq aclValue.m[k].privileges

\* "alice" with create_with_grant alone and "Alice" with usage_with_grant
\* alone, merged under one key
C20_Witness ==
    /\ aclValue # NoResult
    /\ Len(aclPolicies) = 2
    /\ aclPolicies[1] = PolicyMap("alice", FALSE, TRUE, FALSE, FALSE)
    /\ aclPolicies[2] = PolicyMap("Alice", FALSE, FALSE, FALSE, TRUE)
    /\ DOMAIN aclValue.m = {"alice"}
    /\ aclValue.m["alice"].grantOptions = {"CREATE", "USAGE"}

\* the acl.Schema values of one role
AclValuesOf(role) == {schemaPolicyToACL(p) : p \in {x \in AclPolicies : x.role = role}}

GrantTables == {"t1", "t2"}
ObjectPrivileges(objectType) ==
    IF objectType = "database" THEN {"CONNECT", "CREATE"} ELSE {"SELECT", "INSERT"}
allowedPrivileges(objectType) == ObjectPrivileges(objectType) \cup {"ALL"}

\* d.Id() of a resource without identifier, and the two forms of
\* generateGrantID: the parts joined by "_", or, with a table list, the
\* parts, the sorted tables and the sorted privileges joined by ":"
NoId == [kind |-> "none", tables |-> {}, privileges |-> {}]
generateGrantID(d) ==
    IF d.tables = {}
    THEN [kind |-> "plain", tables |-> {}, privileges |-> {}]
    ELSE [kind |-> "table", tables |-> d.tables, privileges |-> d.privileges]

\* strings.Split(part, ","): the names that were joined; an empty part
\* gives the one name ""
SplitNames(S) == IF S = {} THEN {""} ELSE S

readTableGrantID(d) ==
    [tables |-> SplitNames(d.id.tables), privileges |-> SplitNames(d.id.privileges)]

\* the privileges a role holds after GRANT <privs>: ALL stands for every
\* privilege of the object type
Granted(privs, objectType) ==
    IF "ALL" \in privs THEN ObjectPrivileges(objectType) ELSE privs

\* the catalog after the REVOKE ALL PRIVILEGES and the GRANT of create: on
\* the database, on the listed tables, or on all tables of the schema
revokeAndGrant(cat, d) ==
    IF d.object_type = "database"
    THEN [cat EXCEPT !.db = Granted(d.privileges, "database")]
    ELSE [cat EXCEPT !.tables =
            [t \in DOMAIN @ |-> IF d.tables = {} \/ t \in d.tables
                                THEN Granted(d.privileges, "table") ELSE @[t]]]

\* the privileges field becomes what the database ACL holds for the role
readDatabaseRolePrivileges(d, cat) == [d EXCEPT !.privileges = cat.db]

\* variant: the tables field is set to the declared tables whatever exists
readTableRolePrivilegesKeepTables(d, cat) ==
    LET id == readTableGrantID(d)
        actualTableNames == id.tables \cap DOMAIN cat.tables
        privilegesOk == \A t \in actualTableNames : cat.tables[t] = id.privileges
    IN  [d EXCEPT !.tables = id.tables,
                  !.privileges = IF privilegesOk THEN id.privileges ELSE {},
                  !.id = IF id.tables # {} /\ actualTableNames = {} THEN NoId ELSE @]

\* tables and privileges are taken from the identifier; the query returns
\* the listed tables that exist with the role's privileges on each
readTableRolePrivileges(d, cat) ==
    LET id == readTableGrantID(d)
        actualTableNames == id.tables \cap DOMAIN cat.tables
        privilegesOk == \A t \in actualTableNames : cat.tables[t] = id.privileges
    IN  [d EXCEPT !.tables = IF id.tables = actualTableNames THEN id.tables ELSE {},
                  !.privileges = IF privilegesOk THEN id.privileges ELSE {},
                  !.id = IF id.tables # {} /\ actualTableNames = {} THEN NoId ELSE @]

\* variant: the privileges field is left alone whatever the objects hold
readRolePrivilegesNoCompare(d, cat) ==
    IF d.object_type = "database"
    THEN readDatabaseRolePrivileges(d, cat)
    ELSE IF d.object_type = "table" /\ d.id.kind = "table"
    THEN readTableRolePrivileges(d, cat)
    ELSE d

\* the database path, the table path for an identifier with a table list,
\* and otherwise every object of the schema is compared with the field
readRolePrivileges(d, cat) ==
    IF d.object_type = "database"
    THEN readDatabaseRolePrivileges(d, cat)
    ELSE IF d.object_type = "table" /\ d.id.kind = "table"
    THEN readTableRolePrivileges(d, cat)
    ELSE IF \E o \in DOMAIN cat.tables : cat.tables[o] # d.privileges
    THEN [d EXCEPT !.privileges = {}]
    ELSE d

\* declared grants: a database grant, or a table grant for all tables (empty
\* list) or for listed tables, with at least one privilege
GrantDeclarations ==
    [object_type : {"database"}, tables : {{}},
     privileges : (SUBSET allowedPrivileges("database")) \ {{}}]
    \cup
    [object_type : {"table"}, tables : SUBSET GrantTables,
     privileges : (SUBSET allowedPrivileges("table")) \ {{}}]

\* catalogs: what the role holds on the database, or which tables exist and
\* what the role holds on each
GrantCatalogs(objectType) ==
    IF objectType = "database"
    THEN {[db |-> a, tables |-> <<>>] : a \in SUBSET ObjectPrivileges("database")}
    ELSE {[db |-> {}, tables |-> f] :
            f \in UNION {[E -> SUBSET ObjectPrivileges("table")] : E \in SUBSET GrantTables}}

\* d as the framework hands it to a handler: the declared values
DeclaredData(decl, id) ==
    [object_type |-> decl.object_type, privileges |-> decl.privileges,
     tables |-> decl.tables, id |-> id]

InitGrant ==
    /\ catalogLock = [writer |-> NoProc, readers |-> {}]
    /\ db = FreshDb
    /\ proc = [p \in Procs |-> IdleProc]
    /\ diffOld = <<>> /\ diffNew = <<>> /\ diffRes = NoResult
    /\ polFound = {} /\ polRun1 = NoResult /\ polRun2 = NoResult
    /\ aclPolicies = <<>> /\ aclValue = NoResult
    /\ srD = NoResult /\ srRow = NoResult /\ srRes = NoResult
    /\ NoTextRun
    /\ grDecl \in GrantDeclarations
    /\ grCat \in GrantCatalogs(grDecl.object_type)
    /\ grD = DeclaredData(grDecl, generateGrantID(grDecl))
    /\ grPrev = NoResult
    /\ grStep = "init"

\* create (or update) of the grant: the GRANT fails for a listed table that
\* does not exist and the handler returns the error; otherwise the
\* transaction commits, the identifier is set and the privileges are read
GrantCreateRun ==
    /\ grStep \in {"init", "read", "readafter", "create"}
    /\ LET d0 == DeclaredData(grDecl, grD.id)
           d1 == [d0 EXCEPT !.id = generateGrantID(d0)]
       IN  IF grDecl.tables \subseteq DOMAIN grCat.tables
           THEN /\ grCat' = revokeAndGrant(grCat, d0)
                /\ grD' = readRolePrivileges(d1, grCat')
                /\ grPrev' = d0
                /\ grStep' = "create"
           ELSE /\ grStep' = "createfailed"
                /\ grPrev' = d0
                /\ UNCHANGED <<grCat, grD>>
    /\ UNCHANGED <<grDecl, opVars, diffOld, diffNew, diffRes, polVars, aclVars, schemaReadVars, textVars>>

\* read of the grant whose role, database and schema exist: the identifier
\* is generated again from d, then the privileges are read
GrantReadRun ==
    /\ grStep \in {"init", "read", "readafter", "create", "createfailed"}
    /\ grD.id.kind # "none"
    /\ grPrev' = grD
    /\ grD' = readRolePrivileges([grD EXCEPT !.id = generateGrantID(grD)], grCat)
    /\ grStep' = IF grStep \in {"create", "readafter"} THEN "readafter" ELSE "read"
    /\ UNCHANGED <<grDecl, grCat, opVars, diffOld, diffNew, diffRes, polVars, aclVars, schemaReadVars, textVars>>

NextGrant == GrantCreateRun \/ GrantReadRun

SpecGrant == InitGrant /\ [][NextGrant]_vars

\* the privilege sets of the actual objects a read of d looks at: the
\* database, the listed tables that exist, or every table of the schema
ActualPrivileges(d, cat) ==
    IF d.object_type = "database" THEN {cat.db}
    ELSE {cat.tables[t] : t \in IF d.tables = {} THEN DOMAIN cat.tables
                                ELSE d.tables \cap DOMAIN cat.tables}

PrivilegesDrift(d, cat) == \E a \in ActualPrivileges(d, cat) : a # d.privileges
TablesDrift(d, cat) == d.tables # {} /\ d.tables # d.tables \cap DOMAIN cat.tables

\* a read has run on a d that held declared privileges
AfterRead == grStep \in {"read", "readafter"} /\ grPrev.privileges # {}

C25_CreateConverges ==
    grStep \in {"create", "readafter"} =>
        /\ grD.privileges = grDecl.privileges
        /\ grD.tables = grDecl.tables
        /\ grD.id.kind # "none"

(***************************************************************************)
(* SpecSchemaRead: the read pass of one schema resource on bounded rows    *)
(***************************************************************************)
\* an entry of nspacl: the policy it encodes for its grantee when acl.Parse
\* and acl.NewSchema accept it, or the error of the one that rejects it
AclItems ==
    {[err |-> "none", policy |-> p] : p \in MainPolicies}
        \cup {[err |-> e, policy |-> NoRolePolicy] : e \in {"parse", "perms"}}

SchemaOwnerNames == {"owner1", "owner2"}

\* what the catalog query returns: sql.ErrNoRows, another error, or the
\* owner and the ACL entries of the schema
SchemaRows ==
    {[kind |-> k, owner |-> "", acls |-> <<>>] : k \in {"norows", "error"}}
        \cup {[kind |-> "row", owner |-> o, acls |-> l] :
                o \in SchemaOwnerNames, l \in ListsUpTo(AclItems, MaxPolicies)}

\* the resource data of a schema that has been created from list l
SchemaData(l) ==
    [name |-> "schema1", owner |-> "owner1", database |-> "db1",
     policy |-> l, id |-> "id"]

\* the map schemaPolicies the read builds from accepted ACL entries
schemaPolicies(acls) == CreatePolicyMap([i \in 1..Len(acls) |-> acls[i].policy])

RejectedEntry(acls) == \E i \in 1..Len(acls) : acls[i].err # "none"

\* variant: name, owner, database and identifier are set before the ACL
\* entries are looked at
SchemaReadResultSetFirst(d, row) ==
    CASE row.kind = "norows" -> [d |-> [d EXCEPT !.id = ""], err |-> FALSE]
      [] row.kind = "error"  -> [d |-> d, err |-> TRUE]
      [] row.kind = "row"    ->
            [d |-> [d EXCEPT !.owner = row.owner, !.id = "id"],
             err |-> RejectedEntry(row.acls)]

\* d and the error of resourcePostgreSQLSchemaReadImpl for a query result:
\* no row clears the identifier; an entry that acl.Parse or acl.NewSchema
\* rejects returns the error before anything is set; otherwise name, owner,
\* database and identifier are set, and schemaPolicies is dropped
SchemaReadResult(d, row) ==
    CASE row.kind = "norows" -> [d |-> [d EXCEPT !.id = ""], err |-> FALSE]
      [] row.kind = "error"  -> [d |-> d, err |-> TRUE]
      [] row.kind = "row"    ->
            IF RejectedEntry(row.acls)
            THEN [d |-> d, err |-> TRUE]
            ELSE [d |-> [d EXCEPT !.name = d.name, !.owner = row.owner,
                                  !.database = d.database, !.id = "id"],
                  err |-> FALSE]

InitSchemaRead ==
    /\ catalogLock = [writer |-> NoProc, readers |-> {}]
    /\ db = FreshDb
    /\ proc = [p \in Procs |-> IdleProc]
    /\ diffOld = <<>> /\ diffNew = <<>> /\ diffRes = NoResult
    /\ polFound = {} /\ polRun1 = NoResult /\ polRun2 = NoResult
    /\ aclPolicies = <<>> /\ aclValue = NoResult
    /\ grDecl = NoResult /\ grCat = NoResult /\ grD = NoResult
    /\ grPrev = NoResult /\ grStep = "none"
    /\ srD \in {SchemaData(l) : l \in MainLists}
    /\ srRow \in SchemaRows
    /\ srRes = NoResult
    /\ NoTextRun

RunSchemaRead ==
    /\ srRes = NoResult
    /\ srRes' = SchemaReadResult(srD, srRow)
    /\ UNCHANGED <<srD, srRow, grantVars, textVars, opVars, diffOld, diffNew, diffRes, polVars, aclVars>>

NextSchemaRead == RunSchemaRead

SpecSchemaRead == InitSchemaRead /\ [][NextSchemaRead]_vars

\* C24: when a schema read succeeds on ACL entries whose per-role
\* privileges differ from the declared policy, the declared policy state is
\* no longer the one it was before the read.
C24_PolicyDriftDetected ==
    (/\ srRes # NoResult
     /\ srRow.kind = "row" /\ ~RejectedEntry(srRow.acls)
     /\ schemaPolicies(srRow.acls) # CreatePolicyMap(srD.policy)) =>
        srRes.d.policy # srD.policy

\* C28: a schema read whose query returned an ACL entry that fails to parse
\* or is invalid for a schema returns an error and leaves name, owner,
\* database and identifier as they were.
C28_MalformedAclIsFatal ==
    (srRes # NoResult /\ srRow.kind = "row" /\ RejectedEntry(srRow.acls)) =>
        /\ srRes.err
        /\ srRes.d.name = srD.name /\ srRes.d.owner = srD.owner
        /\ srRes.d.database = srD.database /\ srRes.d.id = srD.id

\* a read of a schema whose owner changed and whose second ACL entry is
\* rejected after a first one was accepted
C28_Witness ==
    /\ srRes # NoResult /\ srRes.err
    /\ srRow.kind = "row" /\ srRow.owner = "owner2" /\ Len(srRow.acls) = 2
    /\ srRow.acls[1].err = "none" /\ srRow.acls[2].err = "perms"
    /\ srRes.d.owner = "owner1" /\ srRes.d.id = "id"

(***************************************************************************)
(* SpecText: identifiers, statements and settings as the functions build   *)
(* them. A string is a sequence of characters; an SQL keyword phrase, an   *)
(* object type and a privilege name are written as one character each.     *)
(***************************************************************************)
\* byte order of the first byte of each character, as sort.Strings sees it
CharCode ==
    [c \in {"\"", "'", ",", ".", ":", "INSERT", "SELECT", "\\", "_", "a", "b", "d", "s", "t"} |->
        CASE c = "\"" -> 34 [] c = "'" -> 39 [] c = "," -> 44 [] c = "." -> 46
          [] c = ":" -> 58 [] c = "INSERT" -> 73 [] c = "SELECT" -> 83
          [] c = "\\" -> 92 [] c = "_" -> 95 [] c = "a" -> 97 [] c = "b" -> 98
          [] c = "d" -> 100 [] c = "s" -> 115 [] c = "t" -> 116]

\* a < b for strings, byte by byte
RECURSIVE StrLess(_, _)
StrLess(a, b) ==
    IF b = <<>> THEN FALSE
    ELSE IF a = <<>> THEN TRUE
    ELSE IF Head(a) = Head(b) THEN StrLess(Tail(a), Tail(b))
    ELSE CharCode[Head(a)] < CharCode[Head(b)]

\* sort.Strings(list) for a list without duplicates
SortStrings(list) ==
    CHOOSE q \in Orders({list[i] : i \in DOMAIN list}) :
        \A i, j \in DOMAIN q : i < j => StrLess(q[i], q[j])

\* strings.Join(parts, sep) for a one-character separator
RECURSIVE Join(_, _)
Join(parts, sep) ==
    IF parts = <<>> THEN <<>>
    ELSE IF Len(parts) = 1 THEN parts[1]
    ELSE parts[1] \o <<sep>> \o Join(Tail(parts), sep)

\* strings.Split(str, sep) for a one-character separator: the pieces
\* between the separators, one empty piece for the empty string
RECURSIVE Split(_, _)
Split(str, sep) ==
    IF str = <<>> THEN << <<>> >>
    ELSE LET r == Split(Tail(str), sep) IN
         IF Head(str) = sep THEN << <<>> >> \o r
         ELSE << <<Head(str)>> \o Head(r) >> \o Tail(r)

\* strings.Replace(str, c, cc, -1): every c is written twice
RECURSIVE Doubled(_, _)
Doubled(str, c) ==
    IF str = <<>> THEN <<>>
    ELSE (IF Head(str) = c THEN <<c, c>> ELSE <<Head(str)>>) \o Doubled(Tail(str), c)

\* pq.QuoteIdentifier: double quotes around the name, inner ones doubled
QuoteIdentifier(name) == <<"\"">> \o Doubled(name, "\"") \o <<"\"">>

\* backslashes and single quotes are doubled; the caller adds the quotes
pqQuoteLiteral(in) == Doubled(Doubled(in, "\\"), "'")

\* strings.ToUpper of an object type, followed by "S" in ALL ...S IN SCHEMA
UpperPlural(objectType) ==
    CASE objectType = "table" -> "TABLES" [] objectType = "sequence" -> "SEQUENCES"
      [] objectType = "function" -> "FUNCTIONS" [] OTHER -> "DATABASES"

createGrantQuery(d, privileges, tables) ==
    LET query ==
          IF d.object_type = "database"
          THEN <<"GRANT ">> \o Join(privileges, ",") \o <<" ON DATABASE ">>
               \o QuoteIdentifier(d.database) \o <<" TO ">> \o QuoteIdentifier(d.role)
          ELSE IF Len(tables) > 0
          THEN <<"GRANT ">> \o Join(privileges, ",") \o <<" ON TABLE ">>
               \o Join(tables, ",") \o <<" TO ">> \o QuoteIdentifier(d.role)
          ELSE <<"GRANT ">> \o Join(privileges, ",") \o <<" ON ALL ">>
               \o <<UpperPlural(d.object_type)>> \o <<" IN SCHEMA ">>
               \o QuoteIdentifier(d.schema) \o <<" TO ">> \o QuoteIdentifier(d.role)
    IN  IF d.with_grant_option THEN query \o <<" WITH GRANT OPTION">> ELSE query

createRevokeQuery(d, tables) ==
    IF d.object_type = "database"
    THEN <<"REVOKE ALL PRIVILEGES ON DATABASE ">> \o QuoteIdentifier(d.database)
         \o <<" FROM ">> \o QuoteIdentifier(d.role)
    ELSE IF Len(tables) > 0
    THEN <<"REVOKE ALL PRIVILEGES ON TABLE ">> \o Join(tables, ",")
         \o <<" FROM ">> \o QuoteIdentifier(d.role)
    ELSE <<"REVOKE ALL PRIVILEGES ON ALL ">> \o <<UpperPlural(d.object_type)>>
         \o <<" IN SCHEMA ">> \o QuoteIdentifier(d.schema)
         \o <<" FROM ">> \o QuoteIdentifier(d.role)

\* the query of readTableRolePrivileges: schema and role are bound as $1 and
\* $2, each table name is written between single quotes
readTableRolePrivilegesQuery(tables) ==
    LET quotedTables == [i \in DOMAIN tables |-> <<"'">> \o tables[i] \o <<"'">>]
    IN  <<"SELECT ... WHERE pg_tables.schemaname= $1 AND pg_tables.tablename IN (">>
        \o Join(quotedTables, ",") \o <<") AND pg_user.usename = $2">>

\* the statement of addMembersToRole and of removeMembersFromRole for one
\* member
addMembersToRoleSQL(member, role) ==
    <<"GRANT ">> \o <<"\"">> \o role \o <<"\"">> \o <<" TO ">> \o <<"\"">> \o member \o <<"\"">>
removeMembersFromRoleSQL(member, role) ==
    <<"REVOKE ">> \o <<"\"">> \o role \o <<"\"">> \o <<" FROM ">> \o <<"\"">> \o member \o <<"\"">>

generateSchemaID(d) == Join(<<d.database, d.name>>, ".")
\* variant: the database comes first, as in the schema identifier
generateExtensionIDDatabaseFirst(d) == Join(<<d.database, d.name>>, ".")
generateExtensionID(d) == Join(<<d.name, d.database>>, ".")

\* generateGrantID on strings: role, database, the schema unless the object
\* type is database, and the object type, joined by "_"; with a table list
\* the sorted tables and sorted privileges are appended and ":" joins
generateGrantIDText(d) ==
    LET parts == <<d.role, d.database>>
                 \o (IF d.object_type # "database" THEN <<d.schema>> ELSE <<>>)
                 \o << <<d.object_type>> >>
    IN  IF Len(d.tables) = 0
        THEN Join(parts, "_")
        ELSE Join(parts \o <<Join(SortStrings(d.tables), ","),
                             Join(SortStrings(d.privileges), ",")>>, ":")

\* readTableGrantID on strings: the six first pieces of the identifier; an
\* identifier with fewer pieces makes the index expression panic
readTableGrantIDText(id) ==
    LET parts == Split(id, ":") IN
    IF Len(parts) < 6 THEN [panic |-> TRUE]
    ELSE [panic |-> FALSE, role |-> parts[1], database |-> parts[2],
          schema |-> parts[3], objectType |-> parts[4],
          tables |-> Split(parts[5], ","), privileges |-> Split(parts[6], ",")]

\* the ValidateFunc of max_connections: the errors it reports
validateMaxConnections(value) ==
    IF value < 1 THEN <<"max_connections can not be less than 1">> ELSE <<>>

\* names a configuration may hold, among them names with a quote, a
\* backslash, and the delimiters of the identifiers
TextNames == {<<"a">>, <<"b">>, <<"a", "\"">>, <<"a", "'">>, <<"a", "\\">>,
              <<"a", ":", "b">>, <<"a", "_", "b">>, <<"a", ".", "b">>}
TableNames == {<<"t">>, <<"a", ",", "b">>, <<"a", "'">>}
ListsOf(S) == UNION {Orders(T) : T \in SUBSET S}

\* resource data of a grant; the lists are the sets in any iteration order
GrantTexts ==
    [role : {<<"a">>, <<"a", "\"">>, <<"a", ":", "b">>},
     database : {<<"d">>}, schema : {<<"s">>, <<"s", ":">>},
     object_type : {"database", "table", "sequence"},
     tables : ListsOf(TableNames),
     privileges : ListsOf({<<"SELECT">>, <<"INSERT">>}) \ {<<>>},
     with_grant_option : BOOLEAN]

\* group roles and the roles that can be their members
GroupRoles == {"g1", "g2"}
MemberRoles == {"m1", "m2"}

\* the statements of removeMembersFromRole and addMembersToRole for a list
\* of members, and their effect on the members of the group roles; each
\* statement runs on the connection pool, outside any transaction
MemberStatements(k, role, membersList) ==
    [i \in DOMAIN membersList |-> [k |-> k, role |-> role, member |-> membersList[i]]]
RECURSIVE ApplyMembers(_, _)
ApplyMembers(cat, stmts) ==
    IF stmts = <<>> THEN cat
    ELSE LET st == Head(stmts) IN
         ApplyMembers([cat EXCEPT ![st.role] =
                          IF st.k = "GRANT" THEN @ \cup {st.member} ELSE @ \ {st.member}],
                      Tail(stmts))

\* what a membership handler leaves: the statements that were executed, the
\* members of the group roles, and whether it returns an error (the
\* statement after the executed ones failed)
MembershipResult(d, stmts, n) ==
    [stmts |-> SubSeq(stmts, 1, n), cat |-> ApplyMembers(d.cat, SubSeq(stmts, 1, n)),
     err |-> n < Len(stmts)]

\* a membership resource before create or update: the old and the new role
\* and member set of the configuration, and the catalog, in which the old
\* members are members of the old role
MembershipInputs ==
    {d \in [oldRole : GroupRoles, role : GroupRoles,
            os : SUBSET MemberRoles, ns : SUBSET MemberRoles,
            cat : [GroupRoles -> SUBSET MemberRoles]] : d.os \subseteq d.cat[d.oldRole]}

MaxConnectionsBound == 3

TextInputs ==
    {[fn |-> f, d |-> d] : f \in {"grant", "revoke", "readTable", "grantID"}, d \in GrantTexts}
    \cup {[fn |-> f, d |-> d] : f \in {"addMember", "removeMember"},
                                d \in [role : TextNames, member : TextNames]}
    \cup {[fn |-> f, d |-> d] : f \in {"schemaID", "extensionID"},
                                d \in [database : {<<"d">>, <<"a", ".", "b">>}, name : TextNames]}
    \cup {[fn |-> f, d |-> d] : f \in {"memberCreate", "memberUpdate"}, d \in MembershipInputs}
    \cup {[fn |-> "maxConnections", d |-> [value |-> v]] :
            v \in (0 - MaxConnectionsBound)..MaxConnectionsBound}

InitText ==
    /\ catalogLock = [writer |-> NoProc, readers |-> {}]
    /\ db = FreshDb
    /\ proc = [p \in Procs |-> IdleProc]
    /\ diffOld = <<>> /\ diffNew = <<>> /\ diffRes = NoResult
    /\ polFound = {} /\ polRun1 = NoResult /\ polRun2 = NoResult
    /\ aclPolicies = <<>> /\ aclValue = NoResult
    /\ grDecl = NoResult /\ grCat = NoResult /\ grD = NoResult
    /\ grPrev = NoResult /\ grStep = "none"
    /\ srD = NoResult /\ srRow = NoResult /\ srRes = NoResult
    /\ txIn \in TextInputs
    /\ txOut = NoResult

\* the function txIn names is applied to its input
TextStep(fn, out) ==
    /\ txIn.fn = fn
    /\ txOut = NoResult
    /\ txOut' = out
    /\ UNCHANGED <<txIn, opVars, diffOld, diffNew, diffRes, polVars, aclVars,
                   grantVars, schemaReadVars>>

RunGrantQuery ==
    TextStep("grant", [text |-> createGrantQuery(txIn.d, txIn.d.privileges, txIn.d.tables)])
RunRevokeQuery ==
    TextStep("revoke", [text |-> createRevokeQuery(txIn.d, txIn.d.tables)])
\* readTableRolePrivileges runs for a table grant whose identifier holds a
\* ":"; the tables of its query are the ones parsed from the identifier
RunReadTableQuery ==
    /\ txIn.fn = "readTable"
    /\ txIn.d.object_type = "table"
    /\ \E i \in DOMAIN generateGrantIDText(txIn.d) : generateGrantIDText(txIn.d)[i] = ":"
    /\ LET id == readTableGrantIDText(generateGrantIDText(txIn.d)) IN
       TextStep("readTable",
                IF id.panic THEN [panic |-> TRUE]
                ELSE [panic |-> FALSE, text |-> readTableRolePrivilegesQuery(id.tables)])
RunMemberQuery ==
    \/ TextStep("addMember", [text |-> addMembersToRoleSQL(txIn.d.member, txIn.d.role)])
    \/ TextStep("removeMember", [text |-> removeMembersFromRoleSQL(txIn.d.member, txIn.d.role)])
RunGenerateID ==
    \/ TextStep("schemaID", [id |-> generateSchemaID(txIn.d)])
    \/ TextStep("extensionID", [id |-> generateExtensionID(txIn.d)])
\* the identifier of a grant, and what readTableGrantID reads back from it
RunGrantID ==
    /\ txIn.fn = "grantID"
    /\ LET id == generateGrantIDText(txIn.d) IN
       TextStep("grantID", [id |-> id, read |-> readTableGrantIDText(id)])
\* create grants the role to every declared member
RunRoleMembershipCreate ==
    /\ txIn.fn = "memberCreate"
    /\ \E ord \in Orders(txIn.d.ns) :
       LET stmts == MemberStatements("GRANT", txIn.d.role, ord) IN
       \E n \in 0..Len(stmts) :
          TextStep("memberCreate", MembershipResult(txIn.d, stmts, n))
\* update, when the member set has changed, revokes the role from the old
\* members that are not new ones, then grants it to the new members that
\* are not old ones; the role is the one of the new configuration
RunRoleMembershipUpdate ==
    /\ txIn.fn = "memberUpdate"
    /\ \E rOrd \in Orders(txIn.d.os \ txIn.d.ns), aOrd \in Orders(txIn.d.ns \ txIn.d.os) :
       LET stmts == IF txIn.d.os # txIn.d.ns
                    THEN MemberStatements("REVOKE", txIn.d.role, rOrd)
                         \o MemberStatements("GRANT", txIn.d.role, aOrd)
                    ELSE <<>>
       IN  \E n \in 0..Len(stmts) :
              TextStep("memberUpdate", MembershipResult(txIn.d, stmts, n))
RunValidateMaxConnections ==
    TextStep("maxConnections", [errors |-> validateMaxConnections(txIn.d.value)])

NextText ==
    \/ RunGrantQuery \/ RunRevokeQuery \/ RunReadTableQuery \/ RunMemberQuery
    \/ RunGenerateID \/ RunGrantID \/ RunValidateMaxConnections
    \/ RunRoleMembershipCreate \/ RunRoleMembershipUpdate

SpecText == InitText /\ [][NextText]_vars

Ran(fn) == txIn # NoResult /\ txIn.fn = fn /\ txOut # NoResult

\* the name of every table of a list, quoted as an identifier
QuotedNames(names) == [i \in DOMAIN names |-> QuoteIdentifier(names[i])]
\* the same, quoted as literals
LiteralNames(names) == [i \in DOMAIN names |-> <<"'">> \o pqQuoteLiteral(names[i]) \o <<"'">>]

\* C32: every name reaches its statement escaped. The GRANT and REVOKE of a
\* grant equal the statement built from the quoted table names; the table
\* names in the query of the table read are quoted literals; the role and
\* the member of a membership statement are quoted identifiers.
C32_NamesEscaped ==
    /\ Ran("grant") =>
          txOut.text = createGrantQuery(txIn.d, txIn.d.privileges, QuotedNames(txIn.d.tables))
    /\ Ran("revoke") =>
          txOut.text = createRevokeQuery(txIn.d, QuotedNames(txIn.d.tables))
    /\ (Ran("readTable") /\ ~txOut.panic) =>
          \E tables \in ListsOf(TableNames) :
              txOut.text = <<"SELECT ... WHERE pg_tables.schemaname= $1 AND pg_tables.tablename IN (">>
                           \o Join(LiteralNames(tables), ",")
                           \o <<") AND pg_user.usename = $2">>
    /\ Ran("addMember") =>
          txOut.text = <<"GRANT ">> \o QuoteIdentifier(txIn.d.role) \o <<" TO ">>
                       \o QuoteIdentifier(txIn.d.member)
    /\ Ran("removeMember") =>
          txOut.text = <<"REVOKE ">> \o QuoteIdentifier(txIn.d.role) \o <<" FROM ">>
                       \o QuoteIdentifier(txIn.d.member)

\* C33 as stated: every identifier is the database name, ".", the resource
\* name (the role, for a grant), followed for a grant with a table list,
\* and only then, by ":"-separated object type, tables and privileges.
C33_DatabaseDotName ==
    /\ Ran("schemaID") => txOut.id = txIn.d.database \o <<".">> \o txIn.d.name
    /\ Ran("extensionID") => txOut.id = txIn.d.database \o <<".">> \o txIn.d.name
    /\ Ran("grantID") =>
          LET d == txIn.d
              base == d.database \o <<".">> \o d.role
          IN  txOut.id = IF d.tables = <<>> THEN base
                         ELSE base \o <<":", d.object_type, ":">>
                              \o Join(SortStrings(d.tables), ",") \o <<":">>
                              \o Join(SortStrings(d.privileges), ",")

\* C33 amended: the schema identifier is database "." schema; the
\* extension identifier is extension "." database; the grant identifier is
\* role, database, schema (unless the object type is database) and object
\* type joined by "_", and for a grant with a table list, and only then,
\* the same parts joined by ":" and followed by ":", the sorted tables,
\* ":" and the sorted privileges.
C33_IdentifierFormats ==
    /\ Ran("schemaID") => txOut.id = txIn.d.database \o <<".">> \o txIn.d.name
    /\ Ran("extensionID") => txOut.id = txIn.d.name \o <<".">> \o txIn.d.database
    /\ Ran("grantID") =>
          LET d == txIn.d
              sep == IF d.tables = <<>> THEN "_" ELSE ":"
              base == d.role \o <<sep>> \o d.database \o <<sep>>
                      \o (IF d.object_type = "database" THEN <<>> ELSE d.schema \o <<sep>>)
                      \o <<d.object_type>>
          IN  txOut.id = IF d.tables = <<>> THEN base
                         ELSE base \o <<":">> \o Join(SortStrings(d.tables), ",")
                              \o <<":">> \o Join(SortStrings(d.privileges), ",")

\* the identifier generated for the extension a in the database d is a.d
C33_Witness ==
    /\ Ran("extensionID")
    /\ txIn.d.name = <<"a">> /\ txIn.d.database = <<"d">>
    /\ txOut.id = <<"a", ".", "d">>

\* the members a list of executed statements names for kind k
StmtMembers(stmts, k) == {stmts[i].member : i \in {j \in DOMAIN stmts : stmts[j].k = k}}

\* C34: after a membership create or update that returns success every
\* declared member is a member of the declared group role; an update from
\* member set os to ns revokes exactly the members of os not in ns and
\* grants exactly the members of ns not in os.
C34_DeclaredMembersGranted ==
    /\ (Ran("memberCreate") /\ ~txOut.err) => txIn.d.ns \subseteq txOut.cat[txIn.d.role]
    /\ (Ran("memberUpdate") /\ ~txOut.err) =>
          /\ txIn.d.ns \subseteq txOut.cat[txIn.d.role]
          /\ StmtMembers(txOut.stmts, "REVOKE") = txIn.d.os \ txIn.d.ns
          /\ StmtMembers(txOut.stmts, "GRANT") = txIn.d.ns \ txIn.d.os

\* C35: validation of max_connections reports an error exactly for the
\* negative values; zero, which stands for an unlimited number of
\* connections, is accepted.
C35_ZeroMaxConnectionsAccepted ==
    Ran("maxConnections") => (txOut.errors # <<>> <=> txIn.d.value < 0)

\* the lists holding the same strings as list, in every order
Reorderings(list) == Orders({list[i] : i \in DOMAIN list})

\* C40: for a grant with a table list, readTableGrantID reads back from the
\* generated identifier the role, database, schema and object type of the
\* grant and its sorted tables and sorted privileges; and the identifier is
\* the same for every iteration order of the two sets.
C40_GrantIDRoundTrip ==
    (Ran("grantID") /\ txIn.d.tables # <<>>) =>
        LET d == txIn.d
            r == txOut.read
        IN  /\ ~r.panic
            /\ r.role = d.role /\ r.database = d.database /\ r.schema = d.schema
            /\ r.objectType = <<d.object_type>>
            /\ r.tables = SortStrings(d.tables)
            /\ r.privileges = SortStrings(d.privileges)
            /\ \A ts \in Reorderings(d.tables), ps \in Reorderings(d.privileges) :
                  generateGrantIDText([d EXCEPT !.tables = ts, !.privileges = ps]) = txOut.id
====
